---------------------------- MODULE Spec2Model ----------------------------
(***************************************************************************)
(* Model of the chess rules engine of chess-tui: piece codec, coordinate   *)
(* algebra, FEN codec, move generator, threat map and the BoardState       *)
(* state machine (make_move / grab_piece / drop_piece / pass_turn).        *)
(*                                                                         *)
(* Conventions.  Option<T> is a sequence of length at most one: <<>> is    *)
(* None and <<x>> is Some(x).  A Piece is identified with its u8 code      *)
(* (From<Piece> for u8 is a bijection onto the 12 codes).  Every field of  *)
(* a Move that holds a Position is read by the code through as_ix() only,  *)
(* so a Move keeps its squares in resolved form; the conversion as_ix is   *)
(* applied where a Position enters the engine.  A Vec is a sequence, in    *)
(* the order the code pushes.  The castling rights, CastleRights in        *)
(* BoardState and u8 in Fen, are the rights byte: bit 8 white kingside,    *)
(* 4 white queenside, 2 black kingside, 1 black queenside.                 *)
(***************************************************************************)
EXTENDS Integers, Sequences, FiniteSets, TLC

(***************************************************************************)
(* Bounds of the model.                                                    *)
(***************************************************************************)
\* largest number of moves played (length of history) in one game
MaxMoves == 2

\* the moves played from the standard starting position
MaxStartMoves == 1

\* the squares of a base board that are set to another value before it is serialized
MaxEdits == 1

(***************************************************************************)
(* Piece codec (piece.rs).                                                 *)
(***************************************************************************)
WhiteKing == 1
WhiteQueen == 2
WhiteRook == 4
WhiteBishop == 8
WhiteKnight == 16
WhitePawn == 32
BlackKing == 65
BlackQueen == 66
BlackRook == 68
BlackBishop == 72
BlackKnight == 80
BlackPawn == 96

\* Piece::white_pieces(), in the order of the vec!
white_pieces == <<WhiteKing, WhiteQueen, WhiteRook, WhiteBishop, WhiteKnight, WhitePawn>>

\* Piece::black_pieces(), in the order of the vec!
black_pieces == <<BlackKing, BlackQueen, BlackRook, BlackBishop, BlackKnight, BlackPawn>>

PieceCodes == {white_pieces[i] : i \in 1..6} \cup {black_pieces[i] : i \in 1..6}

\* TryFrom<u8> for Piece: "Ok", "NoPieceFound" or "PieceEncodingError"
PieceTryFrom(value) ==
    IF value \in PieceCodes THEN "Ok"
    ELSE IF value = 0 THEN "NoPieceFound"
    ELSE "PieceEncodingError"

IsPiece(value) == PieceTryFrom(value) = "Ok"

\* Piece::is_white
is_white(p) == p < 64

(***************************************************************************)
(* Castling rights (piece.rs): a 4-bit mask.                               *)
(***************************************************************************)
WhiteKingside == 8
WhiteQueenside == 4
BlackKingside == 2
BlackQueenside == 1

\* CastleRights::get
CastleGet(rights, mask) == (rights \div mask) % 2 = 1

\* CastleRights::unset
CastleUnset(rights, mask) == IF CastleGet(rights, mask) THEN rights - mask ELSE rights

(***************************************************************************)
(* Positions and moves (board.rs).                                         *)
(***************************************************************************)
Squares == 0..63

\* move_to_ix with the table read by column then row, m[c][r]
move_to_ix_transposed(c, r) ==
    LET m == << <<56, 57, 58, 59, 60, 61, 62, 63>>,
                <<48, 49, 50, 51, 52, 53, 54, 55>>,
                <<40, 41, 42, 43, 44, 45, 46, 47>>,
                <<32, 33, 34, 35, 36, 37, 38, 39>>,
                <<24, 25, 26, 27, 28, 29, 30, 31>>,
                <<16, 17, 18, 19, 20, 21, 22, 23>>,
                <<8, 9, 10, 11, 12, 13, 14, 15>>,
                <<0, 1, 2, 3, 4, 5, 6, 7>> >>
    IN m[c + 1][r + 1]

\* move_to_ix(c, r): the table m[r][c]
move_to_ix(c, r) ==
    LET m == << <<56, 57, 58, 59, 60, 61, 62, 63>>,
                <<48, 49, 50, 51, 52, 53, 54, 55>>,
                <<40, 41, 42, 43, 44, 45, 46, 47>>,
                <<32, 33, 34, 35, 36, 37, 38, 39>>,
                <<24, 25, 26, 27, 28, 29, 30, 31>>,
                <<16, 17, 18, 19, 20, 21, 22, 23>>,
                <<8, 9, 10, 11, 12, 13, 14, 15>>,
                <<0, 1, 2, 3, 4, 5, 6, 7>> >>
    IN m[r + 1][c + 1]

\* the three variants of Position
Algebraic(rank, file) == [kind |-> "Algebraic", a |-> rank, b |-> file, flip |-> FALSE]
Relative(col, row, flip) == [kind |-> "Relative", a |-> col, b |-> row, flip |-> flip]
Index(ix) == [kind |-> "Index", a |-> ix, b |-> 0, flip |-> FALSE]

\* Position::as_ix
as_ix(p) ==
    CASE p.kind = "Algebraic" -> move_to_ix(p.a, p.b)
      [] p.kind = "Relative" -> IF p.flip THEN move_to_ix(p.a, p.b) ELSE (p.a + p.b * 8) % 256
      [] p.kind = "Index" -> p.a

\* impl PartialEq for Position
PositionEq(p, q) == as_ix(p) = as_ix(q)

\* Move::new_with_all, squares resolved
new_with_all(from, to, promotion, en_passant, castling) ==
    [from |-> from, to |-> to, promotion |-> promotion, en_passant |-> en_passant,
     castling |-> castling, piece |-> <<>>]

\* Move::new
NewMove(from, to) == new_with_all(from, to, <<>>, <<>>, <<>>)

\* Move::new_promotion
new_promotion(from, to, promotion) == new_with_all(from, to, promotion, <<>>, <<>>)

\* Move::new_enpassant
new_enpassant(from, to, en_passant) == new_with_all(from, to, <<>>, <<en_passant>>, <<>>)

\* Move::new_castling
new_castling(from, to, rfrom, rto) == new_with_all(from, to, <<>>, <<>>, <<rfrom, rto>>)

\* impl PartialEq for Move: from, to and promotion only
MoveEq(m, n) == m.from = n.from /\ m.to = n.to /\ m.promotion = n.promotion

\* Vec<Move>::contains
Contains(moves, mov) == \E i \in 1..Len(moves) : MoveEq(moves[i], mov)

(***************************************************************************)
(* Move generator (piece.rs).                                              *)
(***************************************************************************)
NoThreats == [i \in Squares |-> 0]

\* path_clear without the test of board[i]: only the threat map is read
path_clear_threats_only(board, from, to, threatmap) ==
    \A i \in (from + 1)..to : threatmap[i] = 0

\* path_clear: for i in from + 1..=to
path_clear(board, from, to, threatmap) ==
    \A i \in (from + 1)..to : board[i] = 0 /\ threatmap[i] = 0

\* Piece::get_castling_moves
get_castling_moves(self, board, position, castle_rights, threatmap) ==
    LET king_ix == position
        ks_right == IF is_white(self) THEN CastleGet(castle_rights, WhiteKingside)
                    ELSE CastleGet(castle_rights, BlackKingside)
        qs_right == IF is_white(self) THEN CastleGet(castle_rights, WhiteQueenside)
                    ELSE CastleGet(castle_rights, BlackQueenside)
        ks_rook == IF is_white(self) THEN 63 ELSE 7
        qs_rook == IF is_white(self) THEN 56 ELSE 0
        ks == IF ks_right
                 /\ path_clear(board, ks_rook, king_ix + 1, NoThreats)
                 /\ path_clear(board, king_ix, king_ix + 2, threatmap)
              THEN <<new_castling(king_ix, king_ix + 2, ks_rook, king_ix + 1)>>
              ELSE <<>>
        qs == IF qs_right
                 /\ path_clear(board, qs_rook, king_ix - 1, NoThreats)
                 /\ path_clear(board, king_ix, king_ix - 2, threatmap)
              THEN <<new_castling(king_ix, king_ix - 2, qs_rook, king_ix - 1)>>
              ELSE <<>>
    IN ks \o qs

\* the loop body of get_sliding_moves without the two wrap tests: a ray goes on
\* across the left and right edge of the board
RECURSIVE SlideRayWrapping(_, _, _, _, _, _)
SlideRayWrapping(self, piece, board, position, pos, d) ==
    LET npos == pos + d
    IN IF npos \notin 0..63 THEN <<>>
       ELSE IF IsPiece(board[npos])
            THEN IF is_white(board[npos]) # is_white(self)
                 THEN <<NewMove(position, npos)>> ELSE <<>>
       ELSE <<NewMove(position, npos)>>
            \o (IF piece = WhiteKing \/ piece = BlackKing THEN <<>>
                ELSE SlideRayWrapping(self, piece, board, position, npos, d))

\* the body of the loop of get_sliding_moves, from square pos in direction d
RECURSIVE SlideRay(_, _, _, _, _, _)
SlideRay(self, piece, board, position, pos, d) ==
    LET last_rank == pos % 8
        npos == pos + d
        new_rank == npos % 8
    IN IF npos \notin 0..63 THEN <<>>
       ELSE IF last_rank = 0 /\ new_rank = 7 THEN <<>>
       ELSE IF last_rank = 7 /\ new_rank = 0 THEN <<>>
       ELSE IF IsPiece(board[npos])
            THEN IF is_white(board[npos]) # is_white(self)
                 THEN <<NewMove(position, npos)>> ELSE <<>>
       ELSE <<NewMove(position, npos)>>
            \o (IF piece = WhiteKing \/ piece = BlackKing THEN <<>>
                ELSE SlideRay(self, piece, board, position, npos, d))

RECURSIVE SlideDirs(_, _, _, _, _, _)
SlideDirs(self, piece, board, position, directions, k) ==
    IF k > Len(directions) THEN <<>>
    ELSE SlideRay(self, piece, board, position, position, directions[k])
         \o SlideDirs(self, piece, board, position, directions, k + 1)

\* Piece::get_sliding_moves
get_sliding_moves(self, board, position) ==
    LET piece == board[position]
        directions == <<8, -8, 1, -1, 7, -7, 9, -9>>
    IN IF ~IsPiece(piece) THEN <<>>
       ELSE IF piece \in {WhiteQueen, BlackQueen, WhiteKing, BlackKing}
            THEN SlideDirs(self, piece, board, position, directions, 1)
       ELSE IF piece \in {WhiteRook, BlackRook}
            THEN SlideDirs(self, piece, board, position, SubSeq(directions, 1, 4), 1)
       ELSE IF piece \in {WhiteBishop, BlackBishop}
            THEN SlideDirs(self, piece, board, position, SubSeq(directions, 5, 8), 1)
       ELSE <<>>

RECURSIVE KnightDirs(_, _, _, _, _)
KnightDirs(self, board, position, directions, k) ==
    IF k > Len(directions) THEN <<>>
    ELSE LET new_pos == position + directions[k]
             cur_rank == position % 8
             new_rank == new_pos % 8
             here ==
                 IF new_pos \notin 0..63 THEN <<>>
                 ELSE IF cur_rank \in {0, 1} /\ new_rank \in {7, 6} THEN <<>>
                 ELSE IF cur_rank \in {6, 7} /\ new_rank \in {0, 1} THEN <<>>
                 ELSE IF IsPiece(board[new_pos])
                      THEN IF is_white(board[new_pos]) # is_white(self)
                           THEN <<NewMove(position, new_pos)>> ELSE <<>>
                 ELSE <<NewMove(position, new_pos)>>
         IN here \o KnightDirs(self, board, position, directions, k + 1)

\* get_knight_moves without the two leaps of 17 squares
get_knight_moves_six_directions(self, board, position) ==
    KnightDirs(self, board, position, <<6, -6, 10, -10, 15, -15>>, 1)

\* Piece::get_knight_moves
get_knight_moves(self, board, position) ==
    KnightDirs(self, board, position, <<6, -6, 10, -10, 15, -15, 17, -17>>, 1)

\* Piece::add_with_promotions: the moves pushed
add_with_promotions(self, from, to) ==
    LET is_promoting == (is_white(self) /\ to < 8) \/ (~is_white(self) /\ to > 55)
        promotions == IF is_promoting
                      THEN IF is_white(self)
                           THEN [i \in 1..6 |-> <<white_pieces[i]>>]
                           ELSE [i \in 1..6 |-> <<black_pieces[i]>>]
                      ELSE << <<>> >>
    IN [i \in 1..Len(promotions) |-> new_promotion(from, to, promotions[i])]

\* u8::abs_diff
abs_diff(a, b) == IF a >= b THEN a - b ELSE b - a

\* get_en_passant without the test that the pushed pawn stands on the capturing
\* pawn's row
get_en_passant_any_row(self, board, position, last_move) ==
    IF last_move = <<>> THEN <<>>
    ELSE LET lm == last_move[1]
             p == board[lm.to]
             last_from_file == lm.from \div 8
             last_to_rank == lm.to % 8
             last_to_file == lm.to \div 8
             self_rank == position % 8
             direction == IF is_white(self) THEN -1 ELSE 1
             capture_square == position + last_to_rank - self_rank
             dest_square == (capture_square + 8 * direction) % 256
         IN IF ~IsPiece(p) \/ (p # WhitePawn /\ p # BlackPawn) THEN <<>>
            ELSE IF abs_diff(last_from_file, last_to_file) # 2 THEN <<>>
            ELSE IF abs_diff(last_to_rank, self_rank) # 1 THEN <<>>
            ELSE <<new_enpassant(position, dest_square, capture_square)>>

\* Piece::get_en_passant: None or Some(move)
get_en_passant(self, board, position, last_move) ==
    IF last_move = <<>> THEN <<>>
    ELSE LET lm == last_move[1]
             p == board[lm.to]
             last_from_file == lm.from \div 8
             last_to_rank == lm.to % 8
             last_to_file == lm.to \div 8
             self_rank == position % 8
             self_file == position \div 8
             direction == IF is_white(self) THEN -1 ELSE 1
             capture_square == position + last_to_rank - self_rank
             dest_square == (capture_square + 8 * direction) % 256
         IN IF ~IsPiece(p) \/ (p # WhitePawn /\ p # BlackPawn) THEN <<>>
            ELSE IF abs_diff(last_from_file, last_to_file) # 2 THEN <<>>
            ELSE IF last_to_file # self_file THEN <<>>
            ELSE IF abs_diff(last_to_rank, self_rank) # 1 THEN <<>>
            ELSE <<new_enpassant(position, dest_square, capture_square)>>

\* get_pawn_moves with the two-square move outside the test of the square ahead: a
\* pawn on its home rank jumps over a piece in front of it
get_pawn_moves_jumping(self, board, position, last_move) ==
    LET direction == IF is_white(self) THEN -1 ELSE 1
        is_first_move == (~is_white(self) /\ position < 16 /\ position > 7)
                         \/ (is_white(self) /\ position < 56 /\ position > 47)
        ahead_pos == position + 8 * direction
        two_ahead_pos == position + 16 * direction
        forwards ==
            (IF ahead_pos \in 0..63 /\ board[ahead_pos] = 0
             THEN add_with_promotions(self, position, ahead_pos) ELSE <<>>)
            \o (IF is_first_move /\ board[two_ahead_pos] = 0
                THEN add_with_promotions(self, position, two_ahead_pos) ELSE <<>>)
        left_pos == position + 8 * direction - 1
        left ==
            IF left_pos \in 0..63 /\ left_pos % 8 # 7
               /\ IsPiece(board[left_pos]) /\ is_white(board[left_pos]) # is_white(self)
            THEN add_with_promotions(self, position, left_pos) ELSE <<>>
        right_pos == position + 8 * direction + 1
        right ==
            IF right_pos \in 0..63 /\ right_pos % 8 # 0
               /\ IsPiece(board[right_pos]) /\ is_white(board[right_pos]) # is_white(self)
            THEN add_with_promotions(self, position, right_pos) ELSE <<>>
    IN forwards \o left \o right \o get_en_passant(self, board, position, last_move)

\* Piece::get_pawn_moves
get_pawn_moves(self, board, position, last_move) ==
    LET direction == IF is_white(self) THEN -1 ELSE 1
        is_first_move == (~is_white(self) /\ position < 16 /\ position > 7)
                         \/ (is_white(self) /\ position < 56 /\ position > 47)
        ahead_pos == position + 8 * direction
        two_ahead_pos == position + 16 * direction
        forwards ==
            IF ahead_pos \in 0..63 /\ board[ahead_pos] = 0
            THEN add_with_promotions(self, position, ahead_pos)
                 \o (IF is_first_move /\ board[two_ahead_pos] = 0
                     THEN add_with_promotions(self, position, two_ahead_pos)
                     ELSE <<>>)
            ELSE <<>>
        left_pos == position + 8 * direction - 1
        left ==
            IF left_pos \in 0..63 /\ left_pos % 8 # 7
               /\ IsPiece(board[left_pos]) /\ is_white(board[left_pos]) # is_white(self)
            THEN add_with_promotions(self, position, left_pos) ELSE <<>>
        right_pos == position + 8 * direction + 1
        right ==
            IF right_pos \in 0..63 /\ right_pos % 8 # 0
               /\ IsPiece(board[right_pos]) /\ is_white(board[right_pos]) # is_white(self)
            THEN add_with_promotions(self, position, right_pos) ELSE <<>>
    IN forwards \o left \o right \o get_en_passant(self, board, position, last_move)

\* Piece::get_moves
get_moves(self, board, position, last_move, castle_rights, threatmap) ==
    IF self \in {BlackKing, WhiteKing}
    THEN get_sliding_moves(self, board, position)
         \o get_castling_moves(self, board, position, castle_rights, threatmap)
    ELSE IF self \in {BlackQueen, WhiteQueen, BlackRook, WhiteRook, BlackBishop, WhiteBishop}
    THEN get_sliding_moves(self, board, position)
    ELSE IF self \in {BlackKnight, WhiteKnight}
    THEN get_knight_moves(self, board, position)
    ELSE get_pawn_moves(self, board, position, last_move)


(***************************************************************************)
(* BoardState (board.rs).  A game state is a record with the fields of     *)
(* the struct.                                                             *)
(***************************************************************************)
\* the loop of get_all_moves over the squares lo..hi, in ascending order
RECURSIVE AllMovesIn(_, _, _, _, _, _, _)
AllMovesIn(board, white_to_move, last_move, castling, threatmap, lo, hi) ==
    IF lo = hi
    THEN IF IsPiece(board[lo]) /\ is_white(board[lo]) = white_to_move
         THEN get_moves(board[lo], board, lo, last_move, castling, threatmap)
         ELSE <<>>
    ELSE LET mid == (lo + hi) \div 2
         IN AllMovesIn(board, white_to_move, last_move, castling, threatmap, lo, mid)
            \o AllMovesIn(board, white_to_move, last_move, castling, threatmap, mid + 1, hi)

\* BoardState::get_all_moves
get_all_moves(s) ==
    AllMovesIn(s.board, s.white_to_move, s.last_move, s.castling, s.threatmap, 0, 63)

\* the squares the moves lead to (mov.to.as_ix() of the loop of update_threatmap)
Destinations(moves) == {moves[k].to : k \in 1..Len(moves)}

\* BoardState::update_threatmap: flip the side, zero the map, mark every destination
\* of get_all_moves, flip the side back
update_threatmap(s) ==
    LET flipped == [s EXCEPT !.white_to_move = ~s.white_to_move, !.threatmap = NoThreats]
        dests == Destinations(get_all_moves(flipped))
    IN [s EXCEPT !.threatmap = [i \in Squares |-> IF i \in dests THEN 1 ELSE 0]]

\* move_piece with the promotion of the move left out: the piece that moved lands
move_piece_without_promotion(s, mov) ==
    LET b1 == [s.board EXCEPT ![mov.to] = s.board[mov.from]]
        b2 == [b1 EXCEPT ![mov.from] = 0]
        b3 == IF mov.en_passant # <<>> THEN [b2 EXCEPT ![mov.en_passant[1]] = 0] ELSE b2
    IN [s EXCEPT !.board = b3, !.last_move = <<mov>>]

\* BoardState::move_piece
move_piece(s, mov) ==
    LET final_piece == IF mov.promotion # <<>> THEN mov.promotion[1] ELSE s.board[mov.from]
        b1 == [s.board EXCEPT ![mov.to] = final_piece]
        b2 == [b1 EXCEPT ![mov.from] = 0]
        b3 == IF mov.en_passant # <<>> THEN [b2 EXCEPT ![mov.en_passant[1]] = 0] ELSE b2
    IN [s EXCEPT !.board = b3, !.last_move = <<mov>>]

\* the first index holding the code, 64 when there is none (Iterator::position)
PositionOf(board, code) ==
    IF \E i \in Squares : board[i] = code
    THEN CHOOSE i \in Squares : board[i] = code /\ \A j \in 0..(i - 1) : board[j] # code
    ELSE 64

\* leaves_king_in_check from the king lookup on, s2 being the scratch copy after
\* move_piece and update_threatmap; king_ix is 64 when the lookup finds no king
king_check_at(s, mov, s2, king_ix) ==
    [panic |-> king_ix = 64,
     check |-> king_ix # 64 /\ s2.threatmap[king_ix] > 0,
     copy |-> [s EXCEPT !.board = [s2.board EXCEPT ![mov.from] = s.board[mov.from],
                                                   ![mov.to] = s.board[mov.to]],
                        !.last_move = <<mov>>]]

\* leaves_king_in_check after move_piece and update_threatmap left the copy s2
king_check(s, mov, s2) ==
    king_check_at(s, mov, s2,
                  PositionOf(s2.board, IF s.white_to_move THEN WhiteKing ELSE BlackKing))

\* BoardState::leaves_king_in_check on the scratch copy s: the verdict, whether the
\* unwrap() of the king lookup aborts, and the scratch copy the call leaves behind.
\* The threat map of the copy is not carried: update_threatmap zeroes it before
\* get_all_moves reads it, so the map left by line 250 is never read.
leaves_king_in_check(s, mov) == king_check(s, mov, update_threatmap(move_piece(s, mov)))

RECURSIVE FilterLegal(_, _, _)

\* the moves the filter keeps: mov unless it leaves the king in check, then the
\* ones kept of the rest
Kept(mov, check, rest) ==
    [panic |-> rest.panic, moves |-> (IF check THEN <<>> ELSE <<mov>>) \o rest.moves]

\* the filter from moves[k] on, r being what leaves_king_in_check returned for it
FilterFrom(moves, k, r) ==
    IF r.panic THEN [panic |-> TRUE, moves |-> <<>>]
    ELSE Kept(moves[k], r.check, FilterLegal(r.copy, moves, k + 1))

\* the filter of get_legal_moves over moves[k..], on the scratch copy
FilterLegal(copy, moves, k) ==
    IF k > Len(moves) THEN [panic |-> FALSE, moves |-> <<>>]
    ELSE FilterFrom(moves, k, leaves_king_in_check(copy, moves[k]))

\* BoardState::get_legal_moves: [panic, moves]
get_legal_moves(s) == FilterLegal(s, get_all_moves(s), 1)

\* update_castling_rights granting the right again to a rook that arrives on its
\* home square
update_castling_rights_regranting(s, mov) ==
    LET piece == s.board[mov.to]
        ks_right == IF s.white_to_move THEN WhiteKingside ELSE BlackKingside
        qs_right == IF s.white_to_move THEN WhiteQueenside ELSE BlackQueenside
        ks_rook == IF s.white_to_move THEN 63 ELSE 7
        qs_rook == IF s.white_to_move THEN 56 ELSE 0
        c1 == IF mov.from = ks_rook THEN CastleUnset(s.castling, ks_right)
              ELSE IF mov.to = ks_rook /\ ~CastleGet(s.castling, ks_right) THEN s.castling + ks_right
              ELSE s.castling
        c2 == IF mov.from = qs_rook THEN CastleUnset(c1, qs_right)
              ELSE IF mov.to = qs_rook /\ ~CastleGet(c1, qs_right) THEN c1 + qs_right
              ELSE c1
    IN IF piece \in {WhiteRook, BlackRook} THEN [s EXCEPT !.castling = c2]
       ELSE IF piece \in {WhiteKing, BlackKing}
            THEN [s EXCEPT !.castling = CastleUnset(CastleUnset(s.castling, ks_right), qs_right)]
       ELSE s

\* BoardState::update_castling_rights
update_castling_rights(s, mov) ==
    LET piece == s.board[mov.to]
        ks_right == IF s.white_to_move THEN WhiteKingside ELSE BlackKingside
        qs_right == IF s.white_to_move THEN WhiteQueenside ELSE BlackQueenside
        ks_rook == IF s.white_to_move THEN 63 ELSE 7
        qs_rook == IF s.white_to_move THEN 56 ELSE 0
        c1 == IF mov.from = ks_rook THEN CastleUnset(s.castling, ks_right) ELSE s.castling
        c2 == IF mov.from = qs_rook THEN CastleUnset(c1, qs_right) ELSE c1
    IN IF piece \in {WhiteRook, BlackRook} THEN [s EXCEPT !.castling = c2]
       ELSE IF piece \in {WhiteKing, BlackKing}
            THEN [s EXCEPT !.castling = CastleUnset(CastleUnset(s.castling, ks_right), qs_right)]
       ELSE s

\* pass_turn letting go of the grabbed piece
pass_turn_dropping_selection(s) ==
    update_threatmap([s EXCEPT !.white_to_move = ~s.white_to_move, !.grabbed_piece = <<>>])

\* pass_turn flipping the side without recomputing the threat map
pass_turn_keeping_map(s) == [s EXCEPT !.white_to_move = ~s.white_to_move]

\* BoardState::pass_turn
pass_turn(s) == update_threatmap([s EXCEPT !.white_to_move = ~s.white_to_move])

\* add_to_history reading the destination square where the code reads the origin
add_to_history_of_target(s, mov) ==
    [s EXCEPT !.history = Append(s.history, [mov EXCEPT !.piece = <<s.board[mov.to]>>])]

\* BoardState::add_to_history
add_to_history(s, mov) ==
    [s EXCEPT !.history = Append(s.history, [mov EXCEPT !.piece = <<s.board[mov.from]>>])]

\* make_move without the early return for from == to: every move goes through
\* is_legal
make_move_in_checking_first(s, legal, mov) ==
    IF legal.panic THEN [res |-> "Panic", mov |-> <<>>, s |-> s]
    ELSE IF ~Contains(legal.moves, mov)
         THEN [res |-> "IllegalMove", mov |-> <<mov>>, s |-> s]
    ELSE IF ~IsPiece(s.board[mov.from])
         THEN [res |-> PieceTryFrom(s.board[mov.from]), mov |-> <<>>, s |-> s]
    ELSE LET s1 == add_to_history(s, mov)
             s2 == move_piece(s1, mov)
             s3 == IF mov.castling # <<>>
                   THEN move_piece(s2, NewMove(mov.castling[1], mov.castling[2]))
                   ELSE s2
             s4 == update_castling_rights(s3, mov)
         IN [res |-> "Ok", mov |-> <<>>, s |-> pass_turn(s4)]

\* BoardState::make_move, legal being the value of self.get_legal_moves() that
\* is_legal reads: the result ("Ok", "IllegalMove", the decode error of
\* add_to_history, or "Panic"), the move an IllegalMove carries, and the state after
make_move_in(s, legal, mov) ==
    IF mov.from = mov.to THEN [res |-> "Ok", mov |-> <<>>, s |-> s]
    ELSE IF legal.panic THEN [res |-> "Panic", mov |-> <<>>, s |-> s]
    ELSE IF ~Contains(legal.moves, mov)
         THEN [res |-> "IllegalMove", mov |-> <<mov>>, s |-> s]
    ELSE IF ~IsPiece(s.board[mov.from])
         THEN [res |-> PieceTryFrom(s.board[mov.from]), mov |-> <<>>, s |-> s]
    ELSE LET s1 == add_to_history(s, mov)
             s2 == move_piece(s1, mov)
             s3 == IF mov.castling # <<>>
                   THEN move_piece(s2, NewMove(mov.castling[1], mov.castling[2]))
                   ELSE s2
             s4 == update_castling_rights(s3, mov)
         IN [res |-> "Ok", mov |-> <<>>, s |-> pass_turn(s4)]

\* BoardState::make_move
make_move(s, mov) == make_move_in(s, get_legal_moves(s), mov)

\* BoardState::in_bounds
in_bounds(ix) == ix < 64

\* grab_piece with the selection cleared before the checks, so that a failed grab
\* loses it
grab_piece_clearing(s, ix) ==
    LET cleared == [s EXCEPT !.grabbed_piece = <<>>]
    IN IF ~in_bounds(ix) THEN [res |-> "OutOfBounds", s |-> cleared]
       ELSE IF ~IsPiece(s.board[ix]) THEN [res |-> PieceTryFrom(s.board[ix]), s |-> cleared]
       ELSE IF is_white(s.board[ix]) # s.white_to_move THEN [res |-> "WrongTurn", s |-> cleared]
       ELSE [res |-> "Ok", s |-> [s EXCEPT !.grabbed_piece = <<ix>>]]

\* BoardState::grab_piece
grab_piece(s, ix) ==
    IF ~in_bounds(ix) THEN [res |-> "OutOfBounds", s |-> s]
    ELSE IF ~IsPiece(s.board[ix]) THEN [res |-> PieceTryFrom(s.board[ix]), s |-> s]
    ELSE IF is_white(s.board[ix]) # s.white_to_move THEN [res |-> "WrongTurn", s |-> s]
    ELSE [res |-> "Ok", s |-> [s EXCEPT !.grabbed_piece = <<ix>>]]

\* BoardState::drop_piece, legal being the value of self.get_legal_moves() that the
\* delegated make_move reads
drop_piece_in(s, legal, ix) ==
    IF s.grabbed_piece = <<>> THEN [res |-> "NoPieceGrabbed", s |-> s]
    ELSE LET grabbed == s.grabbed_piece[1]
             piece == s.board[grabbed]
             promotion == IF piece = BlackPawn /\ ix > 55 THEN <<BlackQueen>>
                          ELSE IF piece = WhitePawn /\ ix < 8 THEN <<WhiteQueen>>
                          ELSE <<>>
             castling == IF piece = BlackKing /\ grabbed = 4 /\ ix = 6 THEN <<7, 5>>
                         ELSE IF piece = BlackKing /\ grabbed = 4 /\ ix = 2 THEN <<0, 3>>
                         ELSE IF piece = WhiteKing /\ grabbed = 60 /\ ix = 62 THEN <<63, 61>>
                         ELSE IF piece = WhiteKing /\ grabbed = 60 /\ ix = 58 THEN <<56, 59>>
                         ELSE <<>>
         IN IF ~IsPiece(piece) THEN [res |-> PieceTryFrom(piece), s |-> s]
            ELSE LET r == make_move_in(s, legal,
                                       new_with_all(grabbed, ix, promotion, <<>>, castling))
                 IN IF r.res # "Ok" THEN [res |-> r.res, s |-> r.s]
                    ELSE [res |-> "Ok", s |-> [r.s EXCEPT !.grabbed_piece = <<>>]]

\* BoardState::drop_piece
drop_piece(s, ix) == drop_piece_in(s, get_legal_moves(s), ix)

(***************************************************************************)
(* FEN codec (fen.rs).  A text is a sequence of characters, each a         *)
(* one-character string.                                                   *)
(***************************************************************************)
Digits == <<"0", "1", "2", "3", "4", "5", "6", "7", "8", "9">>

\* char::is_numeric, on the characters of the model's alphabet
is_numeric(ch) == \E i \in 1..10 : Digits[i] = ch

\* char::to_digit(10)
to_digit(ch) == (CHOOSE i \in 1..10 : Digits[i] = ch) - 1

\* u32::to_string for the run lengths 1..8
DigitChar(n) == Digits[n + 1]

FenLetters == <<"K", "Q", "R", "B", "N", "P", "k", "q", "r", "b", "n", "p">>

\* TryFrom<char> for Piece: Ok
IsFenLetter(ch) == \E i \in 1..12 : FenLetters[i] = ch

\* TryFrom<char> for Piece: the piece
PieceFromChar(ch) == (white_pieces \o black_pieces)[CHOOSE i \in 1..12 : FenLetters[i] = ch]

\* From<Piece> for char with the black arms writing the white letters
CharFromPieceUpper(p) ==
    FenLetters[(((CHOOSE i \in 1..12 : (white_pieces \o black_pieces)[i] = p) - 1) % 6) + 1]

\* From<Piece> for char
CharFromPiece(p) == FenLetters[CHOOSE i \in 1..12 : (white_pieces \o black_pieces)[i] = p]

UpperCase == <<"A", "B", "C", "D", "E", "F", "G", "H", "I", "J", "K", "L", "M",
               "N", "O", "P", "Q", "R", "S", "T", "U", "V", "W", "X", "Y", "Z">>
LowerCase == <<"a", "b", "c", "d", "e", "f", "g", "h", "i", "j", "k", "l", "m",
               "n", "o", "p", "q", "r", "s", "t", "u", "v", "w", "x", "y", "z">>

\* char::to_lowercase
LowerChar(ch) ==
    IF \E i \in 1..26 : UpperCase[i] = ch
    THEN LowerCase[CHOOSE i \in 1..26 : UpperCase[i] = ch]
    ELSE ch

\* str::to_lowercase
to_lowercase(t) == [i \in 1..Len(t) |-> LowerChar(t[i])]

\* char::is_whitespace, on the characters of the model's alphabet
is_whitespace(ch) == ch = " "

\* str::split_whitespace: the fields of the text from position k on, cur being the
\* field under construction
RECURSIVE SplitFrom(_, _, _)
SplitFrom(t, k, cur) ==
    IF k > Len(t) THEN (IF cur = <<>> THEN <<>> ELSE <<cur>>)
    ELSE IF is_whitespace(t[k])
         THEN (IF cur = <<>> THEN <<>> ELSE <<cur>>) \o SplitFrom(t, k + 1, <<>>)
    ELSE SplitFrom(t, k + 1, Append(cur, t[k]))

split_whitespace(t) == SplitFrom(t, 1, <<>>)

\* the placement loop of Fen::parse from character k on: the board, and whether a
\* write at board[ix] with ix >= 64 aborts
RECURSIVE ParsePlacement(_, _, _, _)
ParsePlacement(position, k, board, ix) ==
    IF k > Len(position) THEN [panic |-> FALSE, board |-> board]
    ELSE LET ch == position[k]
         IN IF ch = "/" THEN ParsePlacement(position, k + 1, board, ix)
            ELSE IF is_numeric(ch)
                 THEN ParsePlacement(position, k + 1, board, ix + to_digit(ch))
            ELSE IF IsFenLetter(ch)
                 THEN IF ix > 63 THEN [panic |-> TRUE, board |-> board]
                      ELSE ParsePlacement(position, k + 1,
                                          [board EXCEPT ![ix] = PieceFromChar(ch)], ix + 1)
            ELSE ParsePlacement(position, k + 1, board, ix + 1)

\* the fold of Fen::parse over the castling field
RECURSIVE ParseCastling(_, _, _)
ParseCastling(field, k, acc) ==
    IF k > Len(field) THEN acc
    ELSE ParseCastling(field, k + 1,
                       CASE field[k] = "K" -> acc + 8
                         [] field[k] = "Q" -> acc + 4
                         [] field[k] = "k" -> acc + 2
                         [] field[k] = "q" -> acc + 1
                         [] OTHER -> acc)

\* Fen::parse: "Ok" with the Fen, "ErrorParsingFEN", or "Panic"
FenParse(value) ==
    LET fields == split_whitespace(value)
        none == [board |-> NoThreats, white_to_move |-> TRUE, castling |-> 0]
    IN IF Len(fields) = 0 THEN [res |-> "ErrorParsingFEN", fen |-> none]
       ELSE LET placed == ParsePlacement(fields[1], 1, [i \in Squares |-> 0], 0)
                turn == to_lowercase(IF Len(fields) >= 2 THEN fields[2] ELSE <<"w">>)
                castling == ParseCastling(IF Len(fields) >= 3 THEN fields[3] ELSE <<>>, 1, 0)
            IN IF placed.panic \/ castling > 255 THEN [res |-> "Panic", fen |-> none]
               ELSE [res |-> "Ok",
                     fen |-> [board |-> placed.board, white_to_move |-> turn = <<"w">>,
                              castling |-> castling]]

\* the inner loop of Display for Fen: row c from column r on, empty being the run
\* of empty squares so far
RECURSIVE FenRow(_, _, _, _)
FenRow(board, c, r, empty) ==
    IF r > 7 THEN (IF empty > 0 THEN <<DigitChar(empty)>> ELSE <<>>)
    ELSE LET piece == board[c * 8 + r]
         IN IF piece = 0 THEN FenRow(board, c, r + 1, empty + 1)
            ELSE (IF empty > 0 THEN <<DigitChar(empty)>> ELSE <<>>)
                 \o <<CharFromPiece(piece)>> \o FenRow(board, c, r + 1, 0)

RECURSIVE FenRows(_, _)
FenRows(board, c) ==
    IF c > 7 THEN <<>>
    ELSE FenRow(board, c, 0, 0) \o (IF c < 7 THEN <<"/">> ELSE <<>>) \o FenRows(board, c + 1)

\* impl Display for Fen
FenDisplay(fen) ==
    FenRows(fen.board, 0) \o <<" ">>
    \o (IF fen.white_to_move THEN <<"w">> ELSE <<"b">>) \o <<" ">>
    \o (IF (fen.castling \div 8) % 2 = 1 THEN <<"K">> ELSE <<>>)
    \o (IF (fen.castling \div 4) % 2 = 1 THEN <<"Q">> ELSE <<>>)
    \o (IF (fen.castling \div 2) % 2 = 1 THEN <<"k">> ELSE <<>>)
    \o (IF fen.castling % 2 = 1 THEN <<"q">> ELSE <<>>)
    \o <<" ", "-", " ", "0", " ", "1">>

\* BoardState::from_fen: "Ok" with the state, or the failure of Fen::parse
from_fen(value) ==
    LET p == FenParse(value)
        state == [board |-> p.fen.board, white_to_move |-> p.fen.white_to_move,
                  grabbed_piece |-> <<>>, last_move |-> <<>>, castling |-> p.fen.castling,
                  threatmap |-> NoThreats, history |-> <<>>]
    IN [res |-> p.res, s |-> IF p.res = "Ok" THEN update_threatmap(state) ELSE state]

\* BoardState::as_fen
as_fen(s) ==
    FenDisplay([board |-> s.board, white_to_move |-> s.white_to_move, castling |-> s.castling])

\* app.rs: INITIAL_POSITION
INITIAL_POSITION ==
    <<"r", "n", "b", "q", "k", "b", "n", "r", "/", "p", "p", "p", "p", "p", "p", "p", "p", "/", "8", "/", "8", "/", "8", "/", "8", "/", "P", "P", "P", "P", "P", "P", "P", "P", "/", "R", "N", "B", "Q", "K", "B", "N", "R", " ", "w", " ", "K", "Q", "k", "q">>


(***************************************************************************)
(* The command layer (console.rs, app.rs): how moves reach make_move.      *)
(***************************************************************************)
\* get_castle_component
get_castle_component(pfrom, pto) ==
    CASE as_ix(pfrom) = 60 /\ as_ix(pto) = 62 -> <<63, 61>>
      [] as_ix(pfrom) = 60 /\ as_ix(pto) = 58 -> <<56, 59>>
      [] as_ix(pfrom) = 4 /\ as_ix(pto) = 6 -> <<7, 5>>
      [] as_ix(pfrom) = 4 /\ as_ix(pto) = 2 -> <<0, 3>>
      [] OTHER -> <<>>

FileLetters == <<"a", "b", "c", "d", "e", "f", "g", "h">>

\* impl Display for Position: the letter of ix % 8 and the digit 8 - ix / 8
PositionDisplay(p) ==
    LET ix == as_ix(p)
        rank == ix \div 8
        file == ix % 8
    IN <<FileLetters[file + 1], DigitChar(8 - rank)>>

\* parse_move_values, the filter_map closure: 'a'..='h' gives c - 97, '1'..='8' gives
\* the digit - 1, every other character is dropped
MoveValue(ch) ==
    IF \E i \in 1..8 : FileLetters[i] = ch
    THEN <<(CHOOSE i \in 1..8 : FileLetters[i] = ch) - 1>>
    ELSE IF is_numeric(ch) /\ to_digit(ch) \in 1..8
         THEN <<to_digit(ch) - 1>>
         ELSE <<>>

RECURSIVE MoveValues(_, _)
\* parse_move_values: the values of the characters k.. of the first four
MoveValues(mov, k) ==
    IF k > Len(mov) \/ k > 4 THEN <<>> ELSE MoveValue(mov[k]) \o MoveValues(mov, k + 1)

\* parse_move_values
parse_move_values(mov) ==
    LET values == MoveValues(mov, 1)
    IN IF Len(values) # 4
       THEN [res |-> "MoveParsingError", from |-> Index(0), to |-> Index(0)]
       ELSE [res |-> "Ok", from |-> Algebraic(values[1], values[2]),
             to |-> Algebraic(values[3], values[4])]

\* parse_algebraic_move, ParsedMove::Basic: the move of the two parsed positions
BasicMove(pfrom, pto) ==
    new_with_all(as_ix(pfrom), as_ix(pto), <<>>, <<>>, get_castle_component(pfrom, pto))

\* Move::get_king_file
get_king_file(white_to_move) == IF white_to_move THEN 4 ELSE 7

\* Move::castle_long
castle_long(white_to_move) ==
    LET file == get_king_file(white_to_move)
    IN new_castling(as_ix(Algebraic(4, file)), as_ix(Algebraic(2, file)),
                    as_ix(Algebraic(0, file)), as_ix(Algebraic(3, file)))

\* Move::castle_short
castle_short(white_to_move) ==
    LET file == get_king_file(white_to_move)
    IN new_castling(as_ix(Algebraic(4, file)), as_ix(Algebraic(6, file)),
                    as_ix(Algebraic(7, file)), as_ix(Algebraic(5, file)))

(***************************************************************************)
(* The state machine.                                                      *)
(***************************************************************************)
\* The fields of the BoardState, the result of the last call (op, res) until the
\* caller has taken it, the text last handed to a FEN parser (fen_text), the
\* application's searching flag, and the messages the handler that ran last sent to
\* the engine, in the order sent (engine).
VARIABLES board, white_to_move, grabbed_piece, last_move, threatmap, castling, history,
          result, fen_text, searching, engine, console

vars == <<board, white_to_move, grabbed_piece, last_move, threatmap, castling, history,
          result, fen_text, searching, engine, console>>

\* the BoardState of the current state
State ==
    [board |-> board, white_to_move |-> white_to_move, grabbed_piece |-> grabbed_piece,
     last_move |-> last_move, threatmap |-> threatmap, castling |-> castling,
     history |-> history]

\* the BoardState becomes s
Becomes(s) ==
    /\ board' = s.board
    /\ white_to_move' = s.white_to_move
    /\ grabbed_piece' = s.grabbed_piece
    /\ last_move' = s.last_move
    /\ threatmap' = s.threatmap
    /\ castling' = s.castling
    /\ history' = s.history

\* the positions a game is loaded from
\* k7/3p4/8/4P3/4K3/7P/8/8 b - : a black pawn on its home rank beside a white pawn
EnPassantText ==
    <<"k", "7", "/", "3", "p", "4", "/", "8", "/", "4", "P", "3", "/", "4", "K", "3", "/", "7", "P", "/", "8", "/", "8", " ", "b", " ", "-">>

\* k7/8/8/4n3/8/8/7P/4K2R w K : white holds the kingside right, a black knight roams
CastlingText ==
    <<"k", "7", "/", "8", "/", "8", "/", "4", "n", "3", "/", "8", "/", "8", "/", "7", "P", "/", "4", "K", "2", "R", " ", "w", " ", "K">>

\* k5n1/7P/8/8/8/8/p7/7K w - : a pawn of each side one step from its farthest rank,
\* the white one with a push and a capture
PromotionText ==
    <<"k", "5", "n", "1", "/", "7", "P", "/", "8", "/", "8", "/", "8", "/", "8", "/", "p", "7", "/", "7", "K", " ", "w", " ", "-">>

\* 4k3/7P/8/8/8/2n5/8/R3K3 w Q : White holds the queenside right with the squares
\* between king and rook empty, a knight attacks the king's transit square d1, and
\* a white pawn is one step from promotion
QueensideText ==
    <<"4", "k", "3", "/", "7", "P", "/", "8", "/", "8", "/", "8", "/", "2", "n", "5", "/", "8", "/", "R", "3", "K", "3", " ", "w", " ", "Q">>

StartTexts == {EnPassantText, CastlingText, PromotionText, QueensideText}

AlgebraicPositions == {Algebraic(rank, file) : rank \in 0..7, file \in 0..7}

\* the positions the console's from/to moves are drawn from: the home squares of
\* the kings and rooks and the squares the kings castle to
ConsolePositions == {Algebraic(rank, file) : rank \in {0, 2, 4, 6, 7}, file \in {0, 7}}

\* m as a caller gives it: by from, to and promotion only
Plain(m) == new_promotion(m.from, m.to, m.promotion)

\* the moves of a sequence, as a set
MovesOf(moves) == {moves[k] : k \in 1..Len(moves)}

\* the moves the generator has in state s for the side to move and for the other
\* side
Generated(s) ==
    MovesOf(get_all_moves(s))
    \cup MovesOf(get_all_moves([s EXCEPT !.white_to_move = ~s.white_to_move]))

\* the moves a caller submits to make_move in state s: the generator's moves for the
\* side to move and for the other side, each as generated and by from, to and
\* promotion only, the console's moves between ConsolePositions and the squares of
\* the generated moves, its two castling constructors, and the moves from a square
\* to itself
MoveInputs(s) ==
    LET generated == Generated(s)
    IN generated
       \cup {Plain(m) : m \in generated}
       \cup {BasicMove(Index(m.from), Index(m.to)) : m \in generated}
       \cup {BasicMove(pfrom, pto) : pfrom \in ConsolePositions, pto \in ConsolePositions}
       \cup {castle_short(s.white_to_move), castle_long(s.white_to_move)}
       \cup {NewMove(from, from) : from \in Squares}

\* the squares a caller passes to drop_piece: the board and the first index off it
SquareInputs == 0..64

\* the squares a caller passes to grab_piece in state s: every occupied square, the
\* first empty square and the first index off the board
GrabInputs(s) ==
    {ix \in Squares : s.board[ix] # 0 \/ \A j \in 0..(ix - 1) : s.board[j] # 0} \cup {64}

\* the game state is the one from_fen returned
Loaded(r) ==
    /\ r.res = "Ok"
    /\ board = r.s.board
    /\ white_to_move = r.s.white_to_move
    /\ grabbed_piece = r.s.grabbed_piece
    /\ last_move = r.s.last_move
    /\ threatmap = r.s.threatmap
    /\ castling = r.s.castling
    /\ history = r.s.history

\* no search is running and nothing has been sent to the engine
\* Console::new: no command entered yet, the prompt empty after its prefix
ConsoleNew == [history |-> <<>>, history_ix |-> 0, console |-> ""]

NoEngine ==
    /\ searching = FALSE
    /\ engine = <<>>

Init ==
    /\ fen_text \in StartTexts
    /\ Loaded(from_fen(fen_text))
    /\ result = [op |-> "from_fen", res |-> "Ok"]
    /\ NoEngine
    /\ console = ConsoleNew

\* no call is in progress: the caller has handled the result of the last one
Idle == [op |-> "none", res |-> "none"]

\* operation op returns r.res and leaves the BoardState r.s
Returns(op, r) ==
    /\ Becomes(r.s)
    /\ result' = [op |-> op, res |-> r.res]
    /\ UNCHANGED <<fen_text, searching, engine, console>>

\* make_move on one of the moves, legal being get_legal_moves of the current state
MakeMoveOf(legal, moves) ==
    \E mov \in moves : Returns("make_move", make_move_in(State, legal, mov))

\* Board::make_move: the caller submits a move
MakeMove ==
    /\ result = Idle
    /\ Len(history) < MaxMoves
    /\ MakeMoveOf(get_legal_moves(State), MoveInputs(State))

\* Board::pass_turn
PassTurn ==
    /\ result = Idle
    /\ Returns("pass_turn", [res |-> "Ok", s |-> pass_turn(State)])

\* BoardState::grab_piece: the caller grabs a square
GrabPiece ==
    /\ result = Idle
    /\ \E ix \in GrabInputs(State) : Returns("grab_piece", grab_piece(State, ix))

\* drop_piece on one of the squares, legal being get_legal_moves of the current state
DropPieceOn(legal, squares) ==
    \E ix \in squares : Returns("drop_piece", drop_piece_in(State, legal, ix))

\* BoardState::drop_piece: the caller drops the grabbed piece on a square
DropPiece ==
    /\ result = Idle
    /\ Len(history) < MaxMoves
    /\ DropPieceOn(get_legal_moves(State), SquareInputs)

\* the caller takes the result of the call (app.rs logs an Err and goes on); a call
\* that aborted ends the process
Handle ==
    /\ result # Idle
    /\ result.res # "Panic"
    /\ result' = Idle
    /\ engine' = <<>>
    /\ UNCHANGED <<board, white_to_move, grabbed_piece, last_move, threatmap, castling,
                   history, fen_text, searching, console>>

Next == MakeMove \/ PassTurn \/ GrabPiece \/ DropPiece \/ Handle

Spec == Init /\ [][Next]_vars

(***************************************************************************)
(* The game late on: White still holds the kingside right, and a black     *)
(* knight stands a leap away from the rook on its home square.             *)
(***************************************************************************)
\* k7/8/8/8/8/6n1/8/4K2R b K : king and rook have not moved, Black is to move
RookCaptureText ==
    <<"k", "7", "/", "8", "/", "8", "/", "8", "/", "8", "/", "6", "n", "1", "/", "8", "/", "4", "K", "2", "R", " ", "b", " ", "K">>

InitRook ==
    /\ fen_text = RookCaptureText
    /\ Loaded(from_fen(fen_text))
    /\ result = [op |-> "from_fen", res |-> "Ok"]
    /\ NoEngine
    /\ console = ConsoleNew

SpecRook == InitRook /\ [][Next]_vars

(***************************************************************************)
(* The game with two pawns of one side on neighbouring files, one of them  *)
(* still on its home rank, the other two rows ahead.                       *)
(***************************************************************************)
\* k7/8/8/8/3P4/8/4P3/7K w - : the push e2-e4 lands beside the pawn on d4
PawnPairText ==
    <<"k", "7", "/", "8", "/", "8", "/", "8", "/", "3", "P", "4", "/", "8", "/", "4", "P", "3", "/", "7", "K", " ", "w", " ", "-">>

InitPawns ==
    /\ fen_text = PawnPairText
    /\ Loaded(from_fen(fen_text))
    /\ result = [op |-> "from_fen", res |-> "Ok"]
    /\ NoEngine
    /\ console = ConsoleNew

SpecPawns == InitPawns /\ [][Next]_vars

(***************************************************************************)
(* The game from the standard starting position, its squares grabbed       *)
(* through Board::grab_piece, which takes a Position of any variant.       *)
(***************************************************************************)
\* the positions a caller passes to Board::grab_piece
Positions ==
    AlgebraicPositions
    \cup {Relative(col, row, flip) : col \in 0..7, row \in 0..7, flip \in BOOLEAN}
    \cup {Index(ix) : ix \in 0..64}

InitStart ==
    /\ fen_text = INITIAL_POSITION
    /\ Loaded(from_fen(fen_text))
    /\ result = [op |-> "from_fen", res |-> "Ok"]
    /\ NoEngine
    /\ console = ConsoleNew

\* Board::make_move: the caller submits a move
StartMove ==
    /\ result = Idle
    /\ Len(history) < MaxStartMoves
    /\ MakeMoveOf(get_legal_moves(State), MoveInputs(State))

\* Board::grab_piece: the position is resolved to its index
BoardGrab ==
    /\ result = Idle
    /\ \E pos \in Positions : Returns("grab_piece", grab_piece(State, as_ix(pos)))

NextStart == StartMove \/ PassTurn \/ BoardGrab \/ Handle

SpecStart == InitStart /\ [][NextStart]_vars

(***************************************************************************)
(* The position notation codec on its own: a Fen value, held in board,     *)
(* white_to_move and castling, is serialized and the text parsed.          *)
(***************************************************************************)
EmptyBoard == [ix \in Squares |-> 0]

StartBoard == FenParse(INITIAL_POSITION).fen.board

\* the values a square of a base board is set to; the starting position holds every
\* one of the 12 piece codes
EditCodes == {0, WhiteQueen, BlackKnight}

RECURSIVE EditedBoards(_)
\* the base boards with up to n squares set to one of EditCodes
EditedBoards(n) ==
    IF n = 0
    THEN {EmptyBoard, StartBoard}
    ELSE {[b EXCEPT ![ix] = code] :
              b \in EditedBoards(n - 1), ix \in Squares, code \in EditCodes}

\* the Fen value of the current state
CurrentFen == [board |-> board, white_to_move |-> white_to_move, castling |-> castling]

InitFen ==
    /\ board \in EditedBoards(MaxEdits)
    /\ white_to_move \in BOOLEAN
    /\ castling \in 0..15
    /\ grabbed_piece = <<>>
    /\ last_move = <<>>
    /\ threatmap = NoThreats
    /\ history = <<>>
    /\ result = Idle
    /\ fen_text = <<>>
    /\ NoEngine
    /\ console = ConsoleNew

\* the Fen value becomes the one parse returned; an Err leaves it
Reparsed(r) ==
    /\ board' = IF r.res = "Ok" THEN r.fen.board ELSE board
    /\ white_to_move' = IF r.res = "Ok" THEN r.fen.white_to_move ELSE white_to_move
    /\ castling' = IF r.res = "Ok" THEN r.fen.castling ELSE castling
    /\ result' = [op |-> "Fen::parse", res |-> r.res]
    /\ UNCHANGED <<grabbed_piece, last_move, threatmap, history, searching, engine, console>>

\* Fen::parse of the text Display writes for the current Fen value
Reparse ==
    /\ result = Idle
    /\ fen_text' = FenDisplay(CurrentFen)
    /\ Reparsed(FenParse(fen_text'))

NextFen == Reparse

SpecFen == InitFen /\ [][NextFen]_vars

(***************************************************************************)
(* Fen::parse on texts that are not the output of Display: placements that  *)
(* run short of or past the 64 squares, unrecognized characters, missing   *)
(* and empty fields.                                                       *)
(***************************************************************************)
MaxRows == 8
MaxTail == 2

\* the characters a text ends in: a piece letter, a digit, an unrecognized
\* character, the row separator, white space and the letters of the other fields
TailChars == {"K", "1", "x", "/", " ", "w", "q"}

RECURSIVE Rows(_)
\* n empty rows, "8/" each
Rows(n) == IF n = 0 THEN <<>> ELSE <<"8", "/">> \o Rows(n - 1)

RECURSIVE Tails(_)
\* the texts of up to n characters of TailChars
Tails(n) ==
    IF n = 0 THEN {<<>>}
    ELSE Tails(n - 1) \cup {Append(t, ch) : t \in Tails(n - 1), ch \in TailChars}

\* the texts handed to Fen::parse: up to MaxRows empty rows, then up to MaxTail
\* further characters
TextInputs == {Rows(n) \o t : n \in 0..MaxRows, t \in Tails(MaxTail)}

InitParse ==
    /\ fen_text \in TextInputs
    /\ board = EmptyBoard
    /\ white_to_move = TRUE
    /\ castling = 0
    /\ grabbed_piece = <<>>
    /\ last_move = <<>>
    /\ threatmap = NoThreats
    /\ history = <<>>
    /\ result = Idle
    /\ NoEngine
    /\ console = ConsoleNew

\* Fen::parse of the text
ParseText ==
    /\ result = Idle
    /\ Reparsed(FenParse(fen_text))
    /\ UNCHANGED <<fen_text, console>>

NextParse == ParseText

SpecParse == InitParse /\ [][NextParse]_vars

(***************************************************************************)
(* Fen::parse on the fields after the placement: the side to move and the  *)
(* castling rights, each absent, empty of meaning, or longer than a valid  *)
(* text has it.                                                            *)
(***************************************************************************)
MaxField == 2

\* the characters of the side-to-move field: both cases of w, and b
TurnChars == {"w", "W", "b"}

\* the characters of the castling field: the four letters and the dash
CastlingChars == {"K", "Q", "k", "q", "-"}

RECURSIVE Strings(_, _)
\* the texts of up to n characters of chars
Strings(chars, n) ==
    IF n = 0 THEN {<<>>}
    ELSE Strings(chars, n - 1) \cup {Append(t, ch) : t \in Strings(chars, n - 1), ch \in chars}

\* the texts handed to Fen::parse: a placement, then a side-to-move field unless it
\* is absent, then a castling field unless it is absent
FieldInputs ==
    {<<"K", "7">> \o (IF turn = <<>> THEN <<>> ELSE <<" ">> \o turn \o
                        (IF rights = <<>> THEN <<>> ELSE <<" ">> \o rights)) :
         turn \in Strings(TurnChars, MaxField), rights \in Strings(CastlingChars, MaxField)}

InitFields ==
    /\ fen_text \in FieldInputs
    /\ board = EmptyBoard
    /\ white_to_move = FALSE
    /\ castling = 0
    /\ grabbed_piece = <<>>
    /\ last_move = <<>>
    /\ threatmap = NoThreats
    /\ history = <<>>
    /\ result = Idle
    /\ NoEngine
    /\ console = ConsoleNew

NextFields == ParseText

SpecFields == InitFields /\ [][NextFields]_vars

(***************************************************************************)
(* The move generator on its own: Piece::get_moves for a piece on any      *)
(* square of a board that holds it and up to MaxOthers pawns, after a last *)
(* move that brought one of the pieces to its square.                      *)
(***************************************************************************)
MaxOthers == 1

\* the pieces put beside the piece whose moves are generated: a pawn of either side
OtherCodes == {WhitePawn, BlackPawn}

RECURSIVE WithOthers(_, _)
\* board b with up to n empty squares set to one of OtherCodes
WithOthers(b, n) ==
    IF n = 0 THEN {b}
    ELSE WithOthers(b, n - 1)
         \cup UNION {{[c EXCEPT ![sq] = code] : sq \in {q \in Squares : c[q] = 0},
                                                code \in OtherCodes} :
                         c \in WithOthers(b, n - 1)}

\* the boards the generator is called on: the piece code on square sq, and up to
\* MaxOthers pawns
GenBoards(sq, code) == WithOthers([EmptyBoard EXCEPT ![sq] = code], MaxOthers)

\* the squares the piece on square t of board b can have come from with its last
\* move: a pawn by a push of one square, or of two squares from its home rank; a
\* knight by a leap of two rows and one column
LastOrigins(b, t) ==
    LET row == t \div 8
        from == CASE b[t] = WhitePawn -> {t + 8} \cup (IF row = 4 THEN {t + 16} ELSE {})
                  [] b[t] = BlackPawn -> {t - 8} \cup (IF row = 3 THEN {t - 16} ELSE {})
                  [] b[t] \in {WhiteKnight, BlackKnight} ->
                         {f \in {t - 17, t - 15, t + 15, t + 17} :
                              f \in Squares /\ abs_diff(f % 8, t % 8) = 1}
                  [] OTHER -> {}
    IN {f \in from : f \in Squares /\ b[f] = 0}

\* the values of last_move on board b: none, or a move of LastOrigins when the board
\* holds a pawn besides the piece that moved
GenLastMoves(b) ==
    LET pawns == {sq \in Squares : b[sq] \in {WhitePawn, BlackPawn}}
        movers == {t \in Squares : b[t] # 0 /\ pawns \ {t} # {}}
    IN {<<>>} \cup UNION {{<<NewMove(f, t)>> : f \in LastOrigins(b, t)} : t \in movers}

InitGen ==
    /\ \E sq \in Squares, code \in PieceCodes : board \in GenBoards(sq, code)
    /\ last_move \in GenLastMoves(board)
    /\ white_to_move = TRUE
    /\ castling = 0
    /\ grabbed_piece = <<>>
    /\ threatmap = NoThreats
    /\ history = <<>>
    /\ result = Idle
    /\ fen_text = <<>>
    /\ NoEngine
    /\ console = ConsoleNew

\* Piece::get_moves for the piece on an occupied square of the board, as
\* get_all_moves calls it: the result carries the square and the moves
Generate ==
    /\ result = Idle
    /\ \E position \in Squares :
           /\ IsPiece(board[position])
           /\ result' = [op |-> "Piece::get_moves", res |-> "Ok", position |-> position,
                         moves |-> get_moves(board[position], board, position, last_move,
                                             castling, threatmap)]
    /\ UNCHANGED <<board, white_to_move, grabbed_piece, last_move, threatmap, castling,
                   history, fen_text, searching, engine, console>>

NextGen == Generate \/ Handle

SpecGen == InitGen /\ [][NextGen]_vars

(***************************************************************************)
(* The application around the board (app.rs): its command and mouse        *)
(* handlers, each with the messages it sends to the engine.  An engine     *)
(* call returns Ok or Err; the handler's answers say which.  A value that  *)
(* a handler computes once and reads several times is bound by \E over the *)
(* singleton of its expression.                                            *)
(***************************************************************************)
MaxAppMoves == 1

\* ChessEngine::set_position, stop and go_infinite as messages to the engine
PositionMessage(text) == [cmd |-> "position", fen |-> text]
StopMessage == [cmd |-> "stop", fen |-> <<>>]
GoMessage == [cmd |-> "go", fen |-> <<>>]

\* the engine's answers to the calls of one handler, TRUE for Ok
EngineAnswers == [set_position : BOOLEAN, stop : BOOLEAN, go : BOOLEAN]

\* restart_search sending go before stop
restart_search_go_first(is_searching, answers) ==
    IF ~is_searching THEN [res |-> "Ok", sent |-> <<>>]
    ELSE IF ~answers.go THEN [res |-> "EngineError", sent |-> <<GoMessage>>]
    ELSE [res |-> IF answers.stop THEN "Ok" ELSE "EngineError",
          sent |-> <<GoMessage, StopMessage>>]

\* App::restart_search: the result and the messages sent
restart_search(is_searching, answers) ==
    IF ~is_searching THEN [res |-> "Ok", sent |-> <<>>]
    ELSE IF ~answers.stop THEN [res |-> "EngineError", sent |-> <<StopMessage>>]
    ELSE [res |-> IF answers.go THEN "Ok" ELSE "EngineError",
          sent |-> <<StopMessage, GoMessage>>]

\* App::update_engine_position, fen being self.board.as_fen()
update_engine_position(fen, is_searching, answers) ==
    IF ~answers.set_position
    THEN [res |-> "EngineError", sent |-> <<PositionMessage(fen)>>]
    ELSE LET r == restart_search(is_searching, answers)
         IN [res |-> r.res, sent |-> <<PositionMessage(fen)>> \o r.sent]

\* App::update_trees: whether it aborts (update_move_tree calls get_legal_moves)
update_trees_panics(s) == get_legal_moves(s).panic

\* a handler ends: res is "Panic" when it aborted and else what it logged or "Ok",
\* call is the result of its call into the board, answered whether the engine
\* returned Ok to every call ("none" when there was no call)
Ends(op, res, call, answered) ==
    result' = [op |-> op, res |-> res, call |-> call, answered |-> answered]

\* a handler ends without a message to the engine, leaving the board state s
EndsQuietly(op, res, call, s) ==
    /\ Ends(op, res, call, "none")
    /\ Becomes(s)
    /\ engine' = <<>>

\* the Ok arm of App::set_position for the board state s from_fen returned: the
\* engine is updated and the result unwrapped, then the trees are rebuilt
PositionSet(s, fen, trees_panic) ==
    \E answers \in EngineAnswers :
        LET e == update_engine_position(fen, searching, answers)
        IN /\ Becomes(s)
           /\ engine' = e.sent
           /\ Ends("set_position", IF e.res # "Ok" \/ trees_panic THEN "Panic" ELSE "Ok",
                   "Ok", e.res)

\* App::set_position, r being what Board::from_fen returns
set_position(r) ==
    IF r.res = "Ok"
    THEN \E fen \in {as_fen(r.s)}, trees_panic \in {update_trees_panics(r.s)} :
             PositionSet(r.s, fen, trees_panic)
    ELSE EndsQuietly("set_position", r.res, r.res, State)

\* the texts typed after :fen: a position, and a text without a field
AppTexts == {EnPassantText, <<" ">>}

\* app.rs, Command::SetPosition
SetPosition ==
    /\ result = Idle
    /\ \E text \in AppTexts :
           /\ fen_text' = text
           /\ \E r \in {from_fen(text)} : set_position(r)
    /\ UNCHANGED <<searching, console>>

\* the moves the console builds in state s: ParsedMove::Basic between the squares
\* of the generated moves of either side and between ConsolePositions, and the two
\* castling moves
ConsoleMoves(s) ==
    {BasicMove(Index(m.from), Index(m.to)) : m \in Generated(s)}
       \cup {BasicMove(pfrom, pto) : pfrom \in ConsolePositions, pto \in ConsolePositions}
       \cup {castle_short(s.white_to_move), castle_long(s.white_to_move)}

\* the MakeMove arm of on_command after make_move returned res and left s: the
\* position is handed to the engine whether the move was made or not, the result
\* unwrapped and the trees rebuilt
MoveCommanded(res, s, fen, trees_panic) ==
    \E answers \in EngineAnswers :
        LET e == update_engine_position(fen, searching, answers)
        IN /\ Becomes(s)
           /\ engine' = e.sent
           /\ Ends("Command::MakeMove",
                   IF e.res # "Ok" \/ trees_panic THEN "Panic" ELSE res, res, e.res)

\* the MakeMove arm of on_command, r being what make_move returns
CommandMakeMove(r) ==
    IF r.res = "Panic" THEN EndsQuietly("Command::MakeMove", "Panic", "Panic", r.s)
    ELSE \E fen \in {as_fen(r.s)}, trees_panic \in {update_trees_panics(r.s)} :
             MoveCommanded(r.res, r.s, fen, trees_panic)

\* the MakeMove arm on one of the moves, legal being get_legal_moves of the state
CommandMakeMoveOf(legal, moves) ==
    \E mov \in moves : \E r \in {make_move_in(State, legal, mov)} : CommandMakeMove(r)

\* app.rs, Command::MakeMove
AppMakeMove ==
    /\ result = Idle
    /\ Len(history) < MaxAppMoves
    /\ \E legal \in {get_legal_moves(State)}, moves \in {ConsoleMoves(State)} :
           CommandMakeMoveOf(legal, moves)
    /\ UNCHANGED <<fen_text, searching, console>>

\* the PassTurn arm of on_command, s being the state pass_turn leaves
TurnPassed(s) ==
    \E trees_panic \in {update_trees_panics(s)} :
        EndsQuietly("Command::PassTurn", IF trees_panic THEN "Panic" ELSE "Ok", "Ok", s)

\* app.rs, Command::PassTurn
AppPassTurn ==
    /\ result = Idle
    /\ \E s \in {pass_turn(State)} : TurnPassed(s)
    /\ UNCHANGED <<fen_text, searching, console>>

\* app.rs, Command::StartSeach
StartSearch ==
    /\ result = Idle
    /\ \E ok \in BOOLEAN :
           /\ searching' = IF ok THEN TRUE ELSE searching
           /\ Ends("Command::StartSeach", IF ok THEN "Ok" ELSE "EngineError", "none",
                   IF ok THEN "Ok" ELSE "EngineError")
    /\ engine' = <<GoMessage>>
    /\ UNCHANGED <<board, white_to_move, grabbed_piece, last_move, threatmap, castling,
                   history, fen_text, console>>

\* app.rs, Command::StopSearch
StopSearch ==
    /\ result = Idle
    /\ \E ok \in BOOLEAN :
           /\ searching' = IF ok THEN FALSE ELSE searching
           /\ Ends("Command::StopSearch", IF ok THEN "Ok" ELSE "EngineError", "none",
                   IF ok THEN "Ok" ELSE "EngineError")
    /\ engine' = <<StopMessage>>
    /\ UNCHANGED <<board, white_to_move, grabbed_piece, last_move, threatmap, castling,
                   history, fen_text, console>>

\* the Ok arm of App::drop_piece for the state s the drop left, and the update_trees
\* of on_mouse that follows when the engine was updated
PieceDropped(s, fen, trees_panic) ==
    \E answers \in EngineAnswers :
        LET e == update_engine_position(fen, searching, answers)
        IN /\ Becomes(s)
           /\ engine' = e.sent
           /\ Ends("on_mouse",
                   IF e.res # "Ok" THEN e.res ELSE IF trees_panic THEN "Panic" ELSE "Ok",
                   "Ok", e.res)

\* App::drop_piece as on_mouse calls it, r being what Board::drop_piece returns
AppDropPiece(r) ==
    IF r.res = "Ok"
    THEN \E fen \in {as_fen(r.s)}, trees_panic \in {update_trees_panics(r.s)} :
             PieceDropped(r.s, fen, trees_panic)
    ELSE EndsQuietly("on_mouse", r.res, r.res, r.s)

\* on_mouse, the button released on square pos after it was pressed on square p;
\* legal is get_legal_moves of the state, which a grab does not change
MouseUp(legal, p, pos) ==
    \E g \in {grab_piece(State, p)} :
        LET click == p = pos
            drops == IF click THEN grabbed_piece # <<>> /\ in_bounds(p)
                     ELSE g.res = "Ok" /\ in_bounds(pos)
        IN IF drops
           THEN \E r \in {drop_piece_in(IF click THEN State ELSE g.s, legal, pos)} :
                    AppDropPiece(r)
           ELSE EndsQuietly("on_mouse", "Ok", "none", g.s)

\* on_mouse for the squares pressed and released
MouseOn(legal, pressed, released) ==
    \E p \in pressed, pos \in released : MouseUp(legal, p, pos)

\* app.rs, on_mouse: press and release of the left button on squares of the board
\* and on the column right of it, which get_relative_positions lets through
Mouse ==
    /\ result = Idle
    /\ Len(history) < MaxAppMoves
    /\ \E legal \in {get_legal_moves(State)} :
           MouseOn(legal, GrabInputs(State), SquareInputs)
    /\ UNCHANGED <<fen_text, searching, console>>

InitApp ==
    /\ fen_text = EnPassantText
    /\ Loaded(from_fen(fen_text))
    /\ result = [op |-> "App::from_fen", res |-> "Ok", call |-> "Ok", answered |-> "none"]
    /\ NoEngine
    /\ console = ConsoleNew

NextApp ==
    SetPosition \/ AppMakeMove \/ AppPassTurn \/ StartSearch \/ StopSearch \/ Mouse \/ Handle

SpecApp == InitApp /\ [][NextApp]_vars

(***************************************************************************)
(* The mouse (app.rs): a click at a terminal column and row, resolved to a *)
(* position of the board and then to a square.                             *)
(***************************************************************************)
\* the terminal columns and rows of the events: the board's area and two cells
\* beyond the last column and row that get_relative_positions lets through
MaxColumn == 35
MaxRow == 21

\* get_relative_positions: None is <<>>, Some(p) is <<p>>; column and row are u16
get_relative_positions(column, row, flipped) ==
    IF column < 1 \/ row < 3 \/ column > 33 \/ row > 19 THEN <<>>
    ELSE IF column < 1 THEN <<>>
    ELSE LET col == (column - 1) \div 4
         IN IF row < 2 THEN <<>>
            ELSE LET halved == (row - 2) \div 2
                 IN IF halved < 1 THEN <<>>
                    ELSE <<Relative(col % 256, (halved - 1) % 256, flipped)>>

\* Position::as_ix as a caller sees it: the index, or the panic of the table read
\* m[r][c] of move_to_ix when the row or the column is off the table
as_ix_checked(p) ==
    IF p.kind = "Index" \/ (p.kind = "Relative" /\ ~p.flip) \/ (p.a < 8 /\ p.b < 8)
    THEN [res |-> "Ok", ix |-> as_ix(p)]
    ELSE [res |-> "Panic", ix |-> 0]

\* a left-button event at a terminal cell, not handled yet
MouseEvent(column, row, flipped) ==
    [op |-> "MouseEvent", res |-> "none", column |-> column, row |-> row,
     flipped |-> flipped, position |-> <<>>, square |-> [res |-> "none", ix |-> 0]]

InitMouse ==
    /\ fen_text = EnPassantText
    /\ Loaded(from_fen(fen_text))
    /\ \E column \in 0..MaxColumn, row \in 0..MaxRow, flipped \in BOOLEAN :
           result = MouseEvent(column, row, flipped)
    /\ NoEngine
    /\ console = ConsoleNew

\* on_mouse up to the square of the event: get_relative_positions, and as_ix of the
\* position it returns, which grab_piece, drop_piece and in_bounds start with
Resolve ==
    /\ result.op = "MouseEvent"
    /\ LET p == get_relative_positions(result.column, result.row, result.flipped)
       IN result' = [result EXCEPT !.op = "get_relative_positions",
                                   !.res = IF p = <<>> THEN "None" ELSE "Some",
                                   !.position = p,
                                   !.square = IF p = <<>> THEN @ ELSE as_ix_checked(p[1])]
    /\ UNCHANGED <<board, white_to_move, grabbed_piece, last_move, threatmap, castling,
                   history, fen_text, searching, engine, console>>

NextMouse == Resolve

SpecMouse == InitMouse /\ [][NextMouse]_vars

(***************************************************************************)
(* The console's command history (console.rs): entered commands are kept   *)
(* in history, history_ix is the cursor the up and down keys move, and    *)
(* console is the text of the prompt after its prefix.                     *)
(***************************************************************************)
MaxHistory == 4

\* the commands entered
Commands == {":passturn", ":flipboard"}

\* self.history[ix], a Vec read that panics off its end
HistoryAt(c, ix) ==
    IF ix < Len(c.history) THEN [res |-> "Ok", text |-> c.history[ix + 1]]
    ELSE [res |-> "Panic", text |-> ""]

\* Console::add_to_history
console_add_to_history(c, command) ==
    LET pushed == Append(c.history, command)
    IN [res |-> "Ok", c |-> [c EXCEPT !.history = pushed, !.history_ix = Len(pushed)]]

\* move_history_forwards that starts over at the first entry after the last one
move_history_forwards_wrapping(c) ==
    LET hist_len == Len(c.history)
    IN IF hist_len < 1 THEN [res |-> "Ok", c |-> c]
       ELSE IF c.history_ix < hist_len - 1
            THEN [res |-> "Ok", c |-> [c EXCEPT !.history_ix = c.history_ix + 1,
                                                !.console = c.history[c.history_ix + 2]]]
       ELSE IF c.history_ix = hist_len - 1
            THEN [res |-> "Ok", c |-> [c EXCEPT !.history_ix = 0,
                                                !.console = c.history[1]]]
       ELSE [res |-> "Ok", c |-> c]

\* Console::move_history_forwards
move_history_forwards(c) ==
    LET hist_len == Len(c.history)
    IN IF hist_len < 1 THEN [res |-> "Ok", c |-> c]
       ELSE IF c.history_ix < hist_len - 1
            THEN LET read == HistoryAt(c, c.history_ix + 1)
                 IN [res |-> read.res,
                     c |-> [c EXCEPT !.history_ix = c.history_ix + 1, !.console = read.text]]
       ELSE IF c.history_ix = hist_len - 1
            THEN [res |-> "Ok", c |-> [c EXCEPT !.history_ix = c.history_ix + 1,
                                                !.console = ""]]
       ELSE [res |-> "Ok", c |-> c]

\* Console::move_history_backwards
move_history_backwards(c) ==
    IF c.history_ix > 0
    THEN LET read == HistoryAt(c, c.history_ix - 1)
         IN [res |-> read.res,
             c |-> [c EXCEPT !.history_ix = c.history_ix - 1, !.console = read.text]]
    ELSE [res |-> "Ok", c |-> c]

InitConsole ==
    /\ fen_text = EnPassantText
    /\ Loaded(from_fen(fen_text))
    /\ result = [op |-> "Console::new", res |-> "Ok"]
    /\ NoEngine
    /\ console = ConsoleNew

\* the console after a call that returned r
ConsoleReturns(op, r) ==
    /\ console' = r.c
    /\ result' = [op |-> op, res |-> r.res]
    /\ UNCHANGED <<board, white_to_move, grabbed_piece, last_move, threatmap, castling,
                   history, fen_text, searching, engine>>

\* a call of a Console method is possible while none has panicked
AddToHistory ==
    /\ result.res = "Ok"
    /\ Len(console.history) < MaxHistory
    /\ \E command \in Commands :
           ConsoleReturns("add_to_history", console_add_to_history(console, command))

MoveHistoryForwards ==
    /\ result.res = "Ok"
    /\ ConsoleReturns("move_history_forwards", move_history_forwards(console))

MoveHistoryBackwards ==
    /\ result.res = "Ok"
    /\ ConsoleReturns("move_history_backwards", move_history_backwards(console))

NextConsole == AddToHistory \/ MoveHistoryForwards \/ MoveHistoryBackwards

SpecConsole == InitConsole /\ [][NextConsole]_vars

(***************************************************************************)
(* The properties.                                                         *)
(***************************************************************************)
\* the legality filter returns on s: get_legal_moves(s) does not abort
FilterReturns(s) == ~get_legal_moves(s).panic

\* mov applied in full on s (destination, promotion, en-passant capture) leaves the
\* king of the side to move on a square that is the destination of a pseudo-legal
\* move of the other side
KingThreatenedAfter(s, mov) ==
    LET after == move_piece(s, mov)
        king == PositionOf(after.board, IF s.white_to_move THEN WhiteKing ELSE BlackKing)
        replies == get_all_moves([after EXCEPT !.white_to_move = ~s.white_to_move,
                                               !.threatmap = NoThreats])
    IN \E k \in 1..Len(replies) : replies[k].to = king

\* C1: in every state reached through from_fen, make_move and pass_turn, no move
\* that get_legal_moves returns leaves the mover's own king threatened: after the
\* move is applied in full, the king's square is not the destination of any
\* pseudo-legal move of the other side
C1_LegalMovesKeepKingSafe ==
    (result = Idle /\ grabbed_piece = <<>> /\ FilterReturns(State)) =>
        \A mov \in MovesOf(get_legal_moves(State).moves) : ~KingThreatenedAfter(State, mov)

\* C2: for every reachable state and every move with from # to that is not contained
\* in get_legal_moves() (a call that aborts returns no list to contain it), make_move
\* returns IllegalMove carrying that move and leaves board, side to move, castling
\* rights, last move, threat map, grabbed square and history as they were
C2_IllegalMoveRejected ==
    result = Idle =>
        LET legal == get_legal_moves(State)
        IN \A mov \in MoveInputs(State) :
               (mov.from # mov.to /\ (legal.panic \/ ~Contains(legal.moves, mov))) =>
                   make_move_in(State, legal, mov)
                       = [res |-> "IllegalMove", mov |-> <<mov>>, s |-> State]

\* the en-passant captures that are legal in s for the side to move, each against a
\* pawn of the other side that the last move advanced by two squares
EnPassantCaptures(s) ==
    {m \in MovesOf(get_legal_moves(s).moves) :
        /\ m.en_passant # <<>>
        /\ s.last_move # <<>>
        /\ s.last_move[1].to = m.en_passant[1]
        /\ abs_diff(s.last_move[1].from, s.last_move[1].to) = 16
        /\ s.board[m.from] = (IF s.white_to_move THEN WhitePawn ELSE BlackPawn)
        /\ s.board[m.en_passant[1]] = (IF s.white_to_move THEN BlackPawn ELSE WhitePawn)}

\* C3: after a two-square pawn push, the adjacent pawn's en-passant capture, given to
\* make_move by its from and to squares only, succeeds, empties the square the pushed
\* pawn stands on and puts the capturing pawn on the destination
C3_EnPassantRemovesPushedPawn ==
    (result = Idle /\ FilterReturns(State)) =>
        \A m \in EnPassantCaptures(State) :
            LET r == make_move_in(State, get_legal_moves(State), NewMove(m.from, m.to))
            IN /\ r.res = "Ok"
               /\ r.s.board[m.en_passant[1]] = 0
               /\ r.s.board[m.to] = board[m.from]
               /\ r.s.board[m.from] = 0

\* the four castlings: the king's and the rook's home squares, the king's destination,
\* the square it skips, the squares between king and rook, and the right
Castlings ==
    {[white |-> TRUE, kingside |-> TRUE, king |-> 60, rook |-> 63, to |-> 62, skipped |-> 61,
      between |-> {61, 62}, right |-> WhiteKingside],
     [white |-> TRUE, kingside |-> FALSE, king |-> 60, rook |-> 56, to |-> 58, skipped |-> 59,
      between |-> {57, 58, 59}, right |-> WhiteQueenside],
     [white |-> FALSE, kingside |-> TRUE, king |-> 4, rook |-> 7, to |-> 6, skipped |-> 5,
      between |-> {5, 6}, right |-> BlackKingside],
     [white |-> FALSE, kingside |-> FALSE, king |-> 4, rook |-> 0, to |-> 2, skipped |-> 3,
      between |-> {1, 2, 3}, right |-> BlackQueenside]}

\* the king and the rook of the side to move stand on the home squares of castling c
OnHomeSquares(s, c) ==
    /\ s.white_to_move = c.white
    /\ s.board[c.king] = (IF c.white THEN WhiteKing ELSE BlackKing)
    /\ s.board[c.rook] = (IF c.white THEN WhiteRook ELSE BlackRook)

\* a square between king and rook is occupied
Blocked(s, c) == \E i \in c.between : s.board[i] # 0

\* the threat map marks the king's start, transit or landing square
PathThreatened(s, c) == \E i \in {c.king, c.skipped, c.to} : s.threatmap[i] # 0

\* C4: when the right is held, the squares between king and rook are empty and the
\* king's path is unthreatened, every make_move that accepts a move equal to the
\* king's two-file move by from, to and promotion leaves the king on the destination,
\* the rook on the square the king skipped, and both home squares empty
C4_CastlingMovesKingAndRook ==
    (result = Idle /\ FilterReturns(State)) =>
        \A c \in Castlings :
            (OnHomeSquares(State, c) /\ CastleGet(castling, c.right)
             /\ ~Blocked(State, c) /\ ~PathThreatened(State, c)) =>
                LET legal == get_legal_moves(State)
                IN \A mov \in MoveInputs(State) :
                       LET r == make_move_in(State, legal, mov)
                       IN (MoveEq(mov, NewMove(c.king, c.to)) /\ r.res = "Ok") =>
                              /\ r.s.board[c.to] = board[c.king]
                              /\ r.s.board[c.skipped] = board[c.rook]
                              /\ r.s.board[c.king] = 0
                              /\ r.s.board[c.rook] = 0

\* C5: kingside castling is not in get_legal_moves and is rejected by make_move when a
\* square between king and rook is occupied, and when the threat map marks the king's
\* start, transit or landing square
C5_KingsideCastlingDenied ==
    (result = Idle /\ FilterReturns(State)) =>
        \A c \in {k \in Castlings : k.kingside} :
            (OnHomeSquares(State, c) /\ (Blocked(State, c) \/ PathThreatened(State, c))) =>
                LET legal == get_legal_moves(State)
                IN /\ ~Contains(legal.moves, NewMove(c.king, c.to))
                   /\ \A mov \in MoveInputs(State) :
                          MoveEq(mov, NewMove(c.king, c.to)) =>
                              make_move_in(State, legal, mov).res = "IllegalMove"

\* the standard starting position is on the board and nothing has been played
StartingPosition(s) ==
    /\ s.board = StartBoard
    /\ s.white_to_move
    /\ s.castling = 15
    /\ s.last_move = <<>>
    /\ s.history = <<>>

\* C6: from the standard starting position get_legal_moves yields exactly 20 moves
\* for the side to move: 16 pawn moves and 4 knight moves, and no castling move
C6_StartPositionHasTwentyMoves ==
    StartingPosition(State) =>
        LET legal == get_legal_moves(State)
            moves == MovesOf(legal.moves)
        IN /\ ~legal.panic
           /\ Len(legal.moves) = 20
           /\ Cardinality(moves) = 20
           /\ Cardinality({m \in moves : board[m.from] = WhitePawn}) = 16
           /\ Cardinality({m \in moves : board[m.from] = WhiteKnight}) = 4
           /\ \A m \in moves : m.castling = <<>> /\ board[m.from] # WhiteKing

\* the starting position has been loaded and its 20 legal moves are there to play
C6_Witness ==
    /\ StartingPosition(State)
    /\ result = [op |-> "from_fen", res |-> "Ok"]
    /\ Len(get_legal_moves(State).moves) = 20

\* the first n fields of a text
FirstFields(text, n) == SubSeq(split_whitespace(text), 1, n)

\* C7: for every board of empty squares and piece codes, every side to move and
\* every combination of the four castling rights, parsing the serialized text gives
\* back the same board, side to move and castling rights; and the text serialized
\* for the starting position has the placement, side and castling fields of the
\* standard starting string
C7_FenRoundTrip ==
    /\ (\A ix \in Squares : board[ix] \in PieceCodes \cup {0}) =>
           FenParse(FenDisplay(CurrentFen)) = [res |-> "Ok", fen |-> CurrentFen]
    /\ (board = StartBoard /\ white_to_move /\ castling = 15) =>
           /\ from_fen(INITIAL_POSITION).res = "Ok"
           /\ from_fen(INITIAL_POSITION).s.board = board
           /\ FirstFields(as_fen(from_fen(INITIAL_POSITION).s), 3)
                  = FirstFields(INITIAL_POSITION, 3)

\* a board with a black piece and no castling right has been serialized and parsed
C7_Witness ==
    /\ result = [op |-> "Fen::parse", res |-> "Ok"]
    /\ castling = 0
    /\ ~white_to_move
    /\ board # StartBoard
    /\ \E ix \in Squares : board[ix] = BlackKnight /\ StartBoard[ix] # BlackKnight

\* C8: over the 64 algebraic (rank, file) pairs as_ix is a bijection onto 0..63 that
\* agrees with the move_to_ix table, the square's text parses back to the pair,
\* Algebraic(0, 7), Relative(0, 0, unflipped) and Index(0) are equal, as are
\* Algebraic(7, 0), Relative(7, 7, unflipped) and Index(63), and positions of any
\* variants are equal exactly when their indices are
C8_CoordinateConversion ==
    /\ {as_ix(p) : p \in AlgebraicPositions} = Squares
    /\ Cardinality(AlgebraicPositions) = Cardinality(Squares)
    /\ \A p \in AlgebraicPositions :
           /\ as_ix(p) = move_to_ix(p.a, p.b)
           /\ as_ix(p) = (7 - p.b) * 8 + p.a
           /\ parse_move_values(PositionDisplay(p) \o PositionDisplay(Index(as_ix(p))))
                  = [res |-> "Ok", from |-> p, to |-> p]
    /\ as_ix(Algebraic(0, 7)) = 0 /\ as_ix(Relative(0, 0, FALSE)) = 0
    /\ as_ix(Algebraic(7, 0)) = 63 /\ as_ix(Relative(7, 7, FALSE)) = 63
    /\ PositionEq(Algebraic(0, 7), Relative(0, 0, FALSE)) /\ PositionEq(Algebraic(0, 7), Index(0))
    /\ PositionEq(Algebraic(7, 0), Relative(7, 7, FALSE)) /\ PositionEq(Algebraic(7, 0), Index(63))
    /\ ~PositionEq(Algebraic(0, 7), Algebraic(7, 0))
    /\ grabbed_piece # <<>> =>
           \A p \in Positions :
               PositionEq(p, Index(grabbed_piece[1])) <=> (as_ix(p) = grabbed_piece[1])

\* the rook on a8, index 0, has been grabbed through a position that resolves to it
C8_Witness ==
    /\ result = [op |-> "grab_piece", res |-> "Ok"]
    /\ grabbed_piece = <<as_ix(Algebraic(0, 7))>>
    /\ grabbed_piece = <<as_ix(Relative(0, 0, FALSE))>>
    /\ board[grabbed_piece[1]] = BlackRook

\* the values of a square index
U8 == 0..255

\* C9: grab of a square index >= 64 fails with OutOfBounds, of an empty square with
\* NoPieceFound, of a piece that is not of the side to move with WrongTurn, each
\* leaving the state and any selection as they were; every other grab succeeds, sets
\* the selection to the square and changes nothing else
C9_GrabOutcome ==
    result = Idle =>
        \A ix \in U8 :
            grab_piece(State, ix) =
                IF ix >= 64 THEN [res |-> "OutOfBounds", s |-> State]
                ELSE IF board[ix] = 0 THEN [res |-> "NoPieceFound", s |-> State]
                ELSE IF (board[ix] \in MovesOf(white_pieces)) # white_to_move
                     THEN [res |-> "WrongTurn", s |-> State]
                ELSE [res |-> "Ok", s |-> [State EXCEPT !.grabbed_piece = <<ix>>]]

\* a grab has failed with WrongTurn while another square was selected
C9_Witness ==
    /\ result = [op |-> "grab_piece", res |-> "WrongTurn"]
    /\ grabbed_piece # <<>>
    /\ history # <<>>

\* the results with which drop_piece returns
DropResults == {"Ok", "NoPieceGrabbed", "NoPieceFound", "PieceEncodingError", "IllegalMove"}

\* C10: drop with no piece selected fails with NoPieceGrabbed and changes nothing;
\* with a piece selected it returns, clearing the selection exactly when the
\* delegated make_move succeeds (the drop is onto the selected square or a legal
\* move leads from the selected square to the dropped one), and otherwise returning
\* the error with the selection, board, side to move, castling rights and history
\* as they were
C10_DropOutcome ==
    result = Idle =>
        LET legal == get_legal_moves(State)
        IN \A ix \in SquareInputs :
               LET r == drop_piece_in(State, legal, ix)
               IN IF grabbed_piece = <<>>
                  THEN r = [res |-> "NoPieceGrabbed", s |-> State]
                  ELSE /\ r.res \in DropResults
                       /\ r.res = "Ok" <=>
                              /\ board[grabbed_piece[1]] # 0
                              /\ \/ ix = grabbed_piece[1]
                                 \/ \E m \in MovesOf(legal.moves) :
                                        m.from = grabbed_piece[1] /\ m.to = ix
                       /\ r.res = "Ok" => r.s.grabbed_piece = <<>>
                       /\ r.res # "Ok" => r.s = State

\* the farthest rank of a side: row 8 (indices below 8) for white, row 1 (indices
\* above 55) for black
FarthestRank(white) == IF white THEN 0..7 ELSE 56..63

\* C11: whenever drop succeeds for a selected pawn of the side to move onto a square
\* of its farthest rank other than the one it stands on, the dropped square
\* afterwards holds a queen of the mover's colour and the origin square is empty
C11_DropPromotesToQueen ==
    (result = Idle /\ grabbed_piece # <<>>) =>
        LET from == grabbed_piece[1]
            pawn == IF white_to_move THEN WhitePawn ELSE BlackPawn
            queen == IF white_to_move THEN WhiteQueen ELSE BlackQueen
            legal == get_legal_moves(State)
        IN board[from] = pawn =>
               \A ix \in FarthestRank(white_to_move) \ {from} :
                   LET r == drop_piece_in(State, legal, ix)
                   IN r.res = "Ok" => (r.s.board[ix] = queen /\ r.s.board[from] = 0)

\* the drop of the white pawn of h7 onto g8, a capture, has just succeeded and left
\* a queen there
C11_Witness ==
    /\ result = [op |-> "drop_piece", res |-> "Ok"]
    /\ history # <<>>
    /\ LET played == history[Len(history)]
       IN /\ played.piece = <<WhitePawn>>
          /\ played.from = 15
          /\ played.to = 6
          /\ played.promotion = <<WhiteQueen>>
          /\ board[6] = WhiteQueen
          /\ board[15] = 0

\* the rights byte with both rights of a side cleared
WithoutRightsOf(rights, white) ==
    IF white THEN CastleUnset(CastleUnset(rights, WhiteKingside), WhiteQueenside)
    ELSE CastleUnset(CastleUnset(rights, BlackKingside), BlackQueenside)

\* the rights byte a successful move of the piece standing on from must leave: a
\* king clears both rights of the mover, a rook leaving the mover's kingside
\* (queenside) home square clears that right, anything else changes nothing
RightsAfterMoveOf(s, from) ==
    LET piece == s.board[from]
        ks_right == IF s.white_to_move THEN WhiteKingside ELSE BlackKingside
        qs_right == IF s.white_to_move THEN WhiteQueenside ELSE BlackQueenside
        ks_rook == IF s.white_to_move THEN 63 ELSE 7
        qs_rook == IF s.white_to_move THEN 56 ELSE 0
    IN IF piece \in {WhiteKing, BlackKing} THEN WithoutRightsOf(s.castling, s.white_to_move)
       ELSE IF piece \in {WhiteRook, BlackRook} /\ from = ks_rook
            THEN CastleUnset(s.castling, ks_right)
       ELSE IF piece \in {WhiteRook, BlackRook} /\ from = qs_rook
            THEN CastleUnset(s.castling, qs_right)
       ELSE s.castling

\* C12: a successful make_move of a king clears both rights of the mover's side, of
\* a rook from the mover's kingside (queenside) rook home square clears the mover's
\* kingside (queenside) right, and changes no other right; a move of any other
\* piece, or of a rook from any other square, leaves all four rights unchanged
C12_CastlingRightsUpdate ==
    result = Idle =>
        LET legal == get_legal_moves(State)
        IN \A mov \in MoveInputs(State) :
               LET r == make_move_in(State, legal, mov)
               IN (r.res = "Ok" /\ mov.from # mov.to) =>
                      r.s.castling = RightsAfterMoveOf(State, mov.from)

CastleMasks == {WhiteKingside, WhiteQueenside, BlackKingside, BlackQueenside}

\* C13: over make_move, pass_turn, grab and drop on one game state, a castling right
\* that is clear stays clear in every later state
C13_RightsStayCleared ==
    [][\A mask \in CastleMasks : ~CastleGet(castling, mask) => ~CastleGet(castling', mask)]_vars

\* White's kingside right, held at the start, was cleared by the rook leaving h1 and
\* a second move has been played since
C13_Witness ==
    /\ Len(history) = 2
    /\ history[1].piece = <<WhiteRook>>
    /\ history[1].from = 63
    /\ history[2].piece = <<BlackKing>>
    /\ castling = 0
    /\ result = Idle

\* the entry a step appended to the history
Appended == history'[Len(history')]

\* the last_move a successful move leaves: the played move, or for a castling move
\* the companion rook move that was carried out after it
PlayedThen(entry) ==
    IF entry.castling # <<>> THEN <<NewMove(entry.castling[1], entry.castling[2])>>
    ELSE <<[entry EXCEPT !.piece = <<>>]>>

\* C14: the history only grows, by one entry at the end, exactly on a successful
\* make_move (direct or via drop) with from # to; it is unchanged by failed calls,
\* no-op moves, grab and pass_turn; the appended entry has the played move's from,
\* to and promotion and the piece that stood on the from-square before the move
C14_HistoryAppendOnly ==
    [][LET grew == Len(history') = Len(history) + 1
           moved == /\ result'.op \in {"make_move", "drop_piece"}
                    /\ result'.res = "Ok"
                    /\ white_to_move' # white_to_move
       IN /\ ~grew => history' = history
          /\ grew <=> moved
          /\ grew =>
                 /\ SubSeq(history', 1, Len(history)) = history
                 /\ Appended.from # Appended.to
                 /\ Appended.piece = <<board[Appended.from]>>
                 /\ last_move' = PlayedThen(Appended)
                 /\ result'.op = "drop_piece" =>
                        (grabbed_piece = <<Appended.from>> /\ board'[Appended.to] # 0)
                 /\ board'[Appended.to] =
                        IF Appended.promotion # <<>> THEN Appended.promotion[1]
                        ELSE board[Appended.from]]_vars

\* two entries in play order: White's promotion on h8 by make_move, then Black's
\* promotion on a1 by a drop
C14_Witness ==
    /\ result = [op |-> "drop_piece", res |-> "Ok"]
    /\ Len(history) = 2
    /\ history[1] = [NewMove(15, 7) EXCEPT !.promotion = <<WhiteQueen>>, !.piece = <<WhitePawn>>]
    /\ history[2] = [NewMove(48, 56) EXCEPT !.promotion = <<BlackQueen>>, !.piece = <<BlackPawn>>]

\* the moves from a square to itself: plain, and with a promotion, an en-passant
\* square and a castling companion filled in
NoOpMoves(sq) ==
    {NewMove(sq, sq),
     new_promotion(sq, sq, <<BlackKing>>),
     new_enpassant(sq, sq, 27),
     new_castling(sq, sq, 63, 61)}

\* C15: make_move with from == to returns success and changes nothing, whatever the
\* other fields of the move and whatever the square holds: board, side to move,
\* castling rights, last move, threat map, selection and history are as before
C15_SameSquareIsNoOp ==
    result = Idle =>
        \A sq \in SquareInputs :
            \A mov \in NoOpMoves(sq) :
                make_move_in(State, get_legal_moves(State), mov)
                    = [res |-> "Ok", mov |-> <<>>, s |-> State]

\* a make_move from a square to itself has returned Ok with a piece selected and
\* nothing played
C15_Witness ==
    /\ result = [op |-> "make_move", res |-> "Ok"]
    /\ history = <<>>
    /\ last_move = <<>>
    /\ grabbed_piece # <<>>

\* the pseudo-legal moves the side not to move generates on the board of s; as in
\* update_threatmap the generator reads a zeroed threat map
OpponentMoves(s) ==
    get_all_moves([s EXCEPT !.white_to_move = ~s.white_to_move, !.threatmap = NoThreats])

\* C16: threatmap[sq] is nonzero exactly when sq is the destination of some
\* pseudo-legal move the side not to move generates on the current board, in the
\* states from_fen, make_move and pass_turn leave (and those grab and drop keep),
\* and recomputing the map leaves the side to move as it was
C16_ThreatMap ==
    LET moves == MovesOf(OpponentMoves(State))
    IN /\ \A sq \in Squares : threatmap[sq] # 0 <=> \E m \in moves : m.to = sq
       /\ update_threatmap(State).white_to_move = white_to_move

\* pass_turn has returned after a move was played, and the map marks squares the
\* side not to move attacks
C16_Witness ==
    /\ result = [op |-> "pass_turn", res |-> "Ok"]
    /\ Len(history) = 1
    /\ \E sq \in Squares : threatmap[sq] # 0
    /\ \E sq \in Squares : threatmap[sq] = 0

\* the text has no field: it is empty or all white space
NoPlacement(t) == \A k \in 1..Len(t) : is_whitespace(t[k])

\* C17: Fen::parse fails only with ErrorParsingFEN and only when the placement field
\* is absent (empty or all-whitespace text); for every other text it returns a
\* board, a side to move and castling rights and never aborts
C17_ParseFailsOnlyWithoutPlacement ==
    result.op = "Fen::parse" =>
        IF NoPlacement(fen_text) THEN result.res = "ErrorParsingFEN"
        ELSE result.res = "Ok"

\* the handler that just ran made a move (console :move or mouse drop) or set a
\* position, successfully
MovedOrSet ==
    /\ result.op \in {"Command::MakeMove", "on_mouse", "set_position"}
    /\ result.call = "Ok"

\* the hand-over of the current position: its FEN, then stop and go if a search is
\* active
HandOver ==
    <<PositionMessage(as_fen(State))>>
    \o (IF searching THEN <<StopMessage, GoMessage>> ELSE <<>>)

C19_QueensideCastlingGenerated ==
    \A c \in {k \in Castlings : ~k.kingside} :
        (/\ white_to_move = c.white
         /\ \E m \in MovesOf(get_all_moves(State)) :
                m.from = c.king /\ m.to = c.to /\ m.castling # <<>>) =>
            /\ CastleGet(castling, c.right)
            /\ ~Blocked(State, c)
            /\ ~PathThreatened(State, c)


\* the four promotion pieces of a side, each as the promotion of a move
PromotionChoices(white) ==
    IF white THEN {<<WhiteQueen>>, <<WhiteRook>>, <<WhiteBishop>>, <<WhiteKnight>>}
    ELSE {<<BlackQueen>>, <<BlackRook>>, <<BlackBishop>>, <<BlackKnight>>}

\* the promotion of every generated pawn move from square from to square to agrees
\* with the rank of to: on the farthest rank there are exactly four such moves, one
\* per promotion piece of the mover's colour, elsewhere no such move has a promotion
ExpandedInto(moves, white, from, to) ==
    LET same == {j \in 1..Len(moves) : moves[j].from = from /\ moves[j].to = to}
    IN IF to \in FarthestRank(white)
       THEN /\ Cardinality(same) = 4
            /\ {moves[j].promotion : j \in same} = PromotionChoices(white)
       ELSE \A j \in same : moves[j].promotion = <<>>

\* the claim of the promotion expansion over a list of generated moves
PawnMovesExpanded(moves, s) ==
    \A k \in 1..Len(moves) :
        s.board[moves[k].from] \in {WhitePawn, BlackPawn} =>
            ExpandedInto(moves, s.white_to_move, moves[k].from, moves[k].to)

\* C20: among the moves get_all_moves generates, every pawn move landing on the
\* farthest rank (push or capture) appears exactly 4 times, once per promotion piece
\* queen, rook, bishop and knight of the mover's colour, with no empty and no other
\* promotion, and pawn moves to any other rank have an empty promotion
C20_PromotionExpansion == PawnMovesExpanded(get_all_moves(State), State)


\* the move the console's 0-0 / O-O (kingside) or 0-0-0 / O-O-O (queenside) command
\* submits for the side to move
CastleCommand(white, kingside) ==
    IF kingside THEN castle_short(white) ELSE castle_long(white)

\* C21: the castling constructors take the king from its home square two files
\* towards the rook, with the rook's move attached (castle_short(white) is 60 -> 62 with
\* 63 -> 61, castle_long(white) 60 -> 58 with 56 -> 59, castle_short(black) 4 -> 6 with
\* 7 -> 5, castle_long(black) 4 -> 2 with 0 -> 3), and whenever get_legal_moves holds a
\* castling move of the side to move, make_move accepts the console's move for it
C21_CastleCommandAccepted ==
    /\ \A c \in Castlings :
           CastleCommand(c.white, c.kingside) = new_castling(c.king, c.to, c.rook, c.skipped)
    /\ result = Idle =>
           LET legal == get_legal_moves(State)
           IN \A c \in Castlings :
                  (/\ c.white = white_to_move
                   /\ \E m \in MovesOf(legal.moves) :
                          m.from = c.king /\ m.to = c.to /\ m.castling # <<>>) =>
                      make_move_in(State, legal, CastleCommand(c.white, c.kingside)).res = "Ok"


\* the scratch board leaves_king_in_check(mov) leaves behind on s is the board of s
\* (a call that aborts leaves nothing behind)
ScratchRestored(s, mov, r) == ~r.panic => r.copy.board = s.board

\* C22: for every pseudo-legal move of the side to move, en-passant captures,
\* promotions and castling moves included, the scratch board after
\* leaves_king_in_check(move) has returned equals the scratch board before the call
C22_LegalityCheckRestoresBoard ==
    result = Idle =>
        \A mov \in MovesOf(get_all_moves(State)) :
            ScratchRestored(State, mov, leaves_king_in_check(State, mov))


\* a character the placement loop knows: the row separator, a digit or a piece letter
Recognized(ch) == ch = "/" \/ is_numeric(ch) \/ IsFenLetter(ch)

\* the board the placement loop reads from the recognized characters of the text's
\* first field alone
BoardOfRecognized(t) ==
    ParsePlacement(SelectSeq(split_whitespace(t)[1], Recognized), 1, EmptyBoard, 0).board

\* C23: in the placement field a piece letter fills one square and advances one
\* square, a digit advances that many squares, '/' is ignored and an unrecognized
\* character is skipped without advancing: the board Fen::parse returns is the board
\* of the same text with the unrecognized characters left out
C23_UnrecognizedCharacterSkipped ==
    (result.op = "Fen::parse" /\ result.res = "Ok") => board = BoardOfRecognized(fen_text)


\* field n of the text, <<>> when the text has fewer fields
FieldOf(t, n) == IF Len(split_whitespace(t)) >= n THEN split_whitespace(t)[n] ELSE <<>>

\* C24: after Fen::parse returns a Fen, white is to move exactly when field 2 of the
\* text is absent or its first character is 'w' or 'W', whatever characters follow
C24_SideToMoveByFirstCharacter ==
    (result.op = "Fen::parse" /\ result.res = "Ok") =>
        (white_to_move <=>
            \/ FieldOf(fen_text, 2) = <<>>
            \/ FieldOf(fen_text, 2)[1] \in {"w", "W"})

\* the letter of each castling right in field 3
RightLetters ==
    {[mask |-> WhiteKingside, letter |-> "K"], [mask |-> WhiteQueenside, letter |-> "Q"],
     [mask |-> BlackKingside, letter |-> "k"], [mask |-> BlackQueenside, letter |-> "q"]}

\* C25: after Fen::parse returns a Fen, each of the four castling rights is set
\* exactly when its letter occurs in field 3 of the text, repeated letters and
\* unrecognized characters included, and the packed value is within 0..15
C25_CastlingBitsFromLetters ==
    (result.op = "Fen::parse" /\ result.res = "Ok") =>
        /\ castling \in 0..15
        /\ \A r \in RightLetters :
               CastleGet(castling, r.mask)
                   <=> \E k \in 1..Len(FieldOf(fen_text, 3)) : FieldOf(fen_text, 3)[k] = r.letter


\* the generator has returned the moves of a pawn
PawnGenerated ==
    result.op = "Piece::get_moves" /\ board[result.position] \in {WhitePawn, BlackPawn}

\* the last move lm was a two-square push: it stayed in its column and crossed two
\* rows
TwoSquarePush(lm) == lm.from % 8 = lm.to % 8 /\ abs_diff(lm.from \div 8, lm.to \div 8) = 2

\* the square diagonally forward of the pawn on square position, in the column of
\* square pushed
DiagonallyForward(b, position, pushed) ==
    (position \div 8 + (IF is_white(b[position]) THEN -1 ELSE 1)) * 8 + (pushed % 8)

\* the en-passant moves the pawn on square position has on board b after last move
\* lm: the capture of the pawn that was pushed two squares and stands beside it
EnPassantExpected(b, position, lm) ==
    IF /\ lm # <<>>
       /\ b[lm[1].to] \in {WhitePawn, BlackPawn}
       /\ TwoSquarePush(lm[1])
       /\ lm[1].to \div 8 = position \div 8
       /\ abs_diff(lm[1].to % 8, position % 8) = 1
    THEN {new_enpassant(position, DiagonallyForward(b, position, lm[1].to), lm[1].to)}
    ELSE {}

\* C26: an en-passant move is generated for a pawn exactly when a last move exists,
\* the piece on its destination is a pawn, it was a two-square push, and the pushed
\* pawn stands on the capturing pawn's row in an adjacent column; the move goes to
\* the square diagonally forward in the pushed pawn's column and captures on the
\* pushed pawn's square, which is not the destination
C26_EnPassantGenerated ==
    PawnGenerated =>
        /\ {m \in MovesOf(result.moves) : m.en_passant # <<>>}
               = EnPassantExpected(board, result.position, last_move)
        /\ \A m \in MovesOf(result.moves) :
               m.en_passant # <<>> => m.en_passant[1] # m.to /\ m.to \in Squares

\* the generator has returned an en-passant capture of a pawn pushed two squares
C26_Witness ==
    /\ PawnGenerated
    /\ last_move # <<>>
    /\ \E m \in MovesOf(result.moves) :
           /\ m.en_passant = <<last_move[1].to>>
           /\ board[m.en_passant[1]] \in {WhitePawn, BlackPawn}
           /\ m.to = DiagonallyForward(board, result.position, last_move[1].to)


\* the generator has returned the moves of a piece of one of the codes
GeneratedFor(codes) == result.op = "Piece::get_moves" /\ board[result.position] \in codes

\* the steps (rows, columns) of the rays of a piece: along its row and column for a
\* rook, along the diagonals for a bishop, both for queen and king
RaySteps(piece) ==
    LET straight == {<<1, 0>>, <<-1, 0>>, <<0, 1>>, <<0, -1>>}
        diagonal == {<<1, 1>>, <<1, -1>>, <<-1, 1>>, <<-1, -1>>}
    IN IF piece \in {WhiteRook, BlackRook} THEN straight
       ELSE IF piece \in {WhiteBishop, BlackBishop} THEN diagonal
       ELSE straight \cup diagonal

\* the square n steps from square origin, by rows and columns, 64 when it is off the
\* board
StepsFrom(origin, step, n) ==
    LET row == origin \div 8 + n * step[1]
        col == (origin % 8) + n * step[2]
    IN IF row \in 0..7 /\ col \in 0..7 THEN row * 8 + col ELSE 64

\* the squares the piece on square origin of board b reaches along its rays: every
\* square with nothing but empty squares between it and the origin that is empty or
\* holds a piece of the other colour, one step at most for a king
SlidingReference(b, origin) ==
    LET piece == b[origin]
        reach == IF piece \in {WhiteKing, BlackKing} THEN 1 ELSE 7
        reached == {far \in RaySteps(piece) \X (1..reach) :
                        /\ StepsFrom(origin, far[1], far[2]) # 64
                        /\ \A k \in 1..(far[2] - 1) : b[StepsFrom(origin, far[1], k)] = 0
                        /\ \/ b[StepsFrom(origin, far[1], far[2])] = 0
                           \/ is_white(b[StepsFrom(origin, far[1], far[2])]) # is_white(piece)}
    IN {StepsFrom(origin, far[1], far[2]) : far \in reached}

\* C27: for queen, rook and bishop the destinations generated are exactly the
\* squares reached along the piece's rank, file or diagonal rays from the origin,
\* stopping before the first own piece and on the first opposing piece, and for the
\* king exactly the in-board neighbouring squares not occupied by an own piece; every
\* generated move starts on the origin and none wraps across the left or right edge
C27_SlidingMatchesReference ==
    GeneratedFor({WhiteKing, WhiteQueen, WhiteRook, WhiteBishop,
                  BlackKing, BlackQueen, BlackRook, BlackBishop}) =>
        /\ Destinations(result.moves) = SlidingReference(board, result.position)
        /\ \A m \in MovesOf(result.moves) : m = NewMove(result.position, m.to)

\* the generator has returned the moves of a rook or queen on the right edge of the
\* board, one of them onto an occupied square
C27_Witness ==
    /\ GeneratedFor({WhiteRook, BlackRook, WhiteQueen, BlackQueen})
    /\ result.position % 8 = 7
    /\ \E sq \in Destinations(result.moves) : board[sq] # 0


\* the squares one column and two rows, or two columns and one row, from square
\* origin on the board, that are empty or hold a piece of the other colour
KnightReference(b, origin) ==
    {sq \in Squares :
         /\ {abs_diff(sq \div 8, origin \div 8), abs_diff(sq % 8, origin % 8)} = {1, 2}
         /\ b[sq] = 0 \/ is_white(b[sq]) # is_white(b[origin])}

\* C28: the destinations generated for a knight are exactly the in-board squares
\* one column and two rows, or two columns and one row, away from the origin that
\* are empty or hold an opposing piece; every generated move starts on the origin
\* and no leap wraps across the left or right edge
C28_KnightMatchesReference ==
    GeneratedFor({WhiteKnight, BlackKnight}) =>
        /\ Destinations(result.moves) = KnightReference(board, result.position)
        /\ \A m \in MovesOf(result.moves) : m = NewMove(result.position, m.to)

\* the generator has returned the moves of a knight in one of the two columns at the
\* left edge, one of them onto an opposing pawn
C28_Witness ==
    /\ GeneratedFor({WhiteKnight, BlackKnight})
    /\ result.position % 8 \in {0, 1}
    /\ \E sq \in Destinations(result.moves) : board[sq] # 0


\* the squares the pawn on square origin of board b moves to, en passant aside: one
\* square forward when it is on the board and empty, two squares forward from the
\* home rank when both are empty, and diagonally forward into an adjacent column
\* onto a piece of the other colour
PawnReference(b, origin) ==
    LET white == is_white(b[origin])
        forward == IF white THEN -1 ELSE 1
        home == IF white THEN 6 ELSE 1
        one == StepsFrom(origin, <<forward, 0>>, 1)
        two == StepsFrom(origin, <<forward, 0>>, 2)
        diagonals == {StepsFrom(origin, <<forward, -1>>, 1), StepsFrom(origin, <<forward, 1>>, 1)}
    IN {sq \in {one} : sq # 64 /\ b[sq] = 0}
       \cup {sq \in {two} : origin \div 8 = home /\ b[one] = 0 /\ b[sq] = 0}
       \cup {sq \in diagonals : sq # 64 /\ b[sq] # 0 /\ is_white(b[sq]) # white}

\* C29: en passant aside, the destinations generated for a pawn are exactly the
\* square one ahead when it is on the board and empty, the square two ahead when the
\* pawn stands on its home rank and both squares ahead are empty, and the squares
\* diagonally forward in an adjacent column that hold an opposing piece; every
\* generated move starts on the origin, and none goes backward or onto an own piece
C29_PawnMatchesReference ==
    GeneratedFor({WhitePawn, BlackPawn}) =>
        /\ {m.to : m \in {n \in MovesOf(result.moves) : n.en_passant = <<>>}}
               = PawnReference(board, result.position)
        /\ \A m \in MovesOf(result.moves) : m.from = result.position

\* the generator has returned the moves of a pawn on its home rank: one square
\* forward, two squares forward and a capture
C29_Witness ==
    /\ GeneratedFor({WhitePawn, BlackPawn})
    /\ result.position \div 8 = (IF is_white(board[result.position]) THEN 6 ELSE 1)
    /\ Cardinality(Destinations(result.moves)) = 3
    /\ \E sq \in Destinations(result.moves) : board[sq] # 0


\* C30: a pass_turn call flips the side to move and leaves the threat map
\* recomputed for the new side, with board, castling rights, last move, history and
\* selection unchanged, and a second pass_turn right after it restores the complete
\* state, threat map included
C30_PassTurnFrame ==
    [][result'.op = "pass_turn" =>
           /\ white_to_move' = ~white_to_move
           /\ threatmap' = update_threatmap(State').threatmap
           /\ UNCHANGED <<board, castling, last_move, history, grabbed_piece>>
           /\ pass_turn(State') = State]_vars

\* the turn has been passed after a move, with a piece grabbed, and the threat map
\* is not the one of the state before
C30_Witness ==
    /\ result.op = "pass_turn"
    /\ last_move # <<>>
    /\ grabbed_piece # <<>>
    /\ threatmap # pass_turn(State).threatmap


\* the moves of MoveInputs that take a pawn of the side to move onto its farthest
\* rank with an empty promotion field
UnpromotedArrivals(s) ==
    {mov \in MoveInputs(s) :
         /\ s.board[mov.from] = (IF s.white_to_move THEN WhitePawn ELSE BlackPawn)
         /\ mov.to \in FarthestRank(s.white_to_move)
         /\ mov.from # mov.to
         /\ mov.promotion = <<>>}

\* no pawn stands on its own farthest rank
NoPawnOnFarthestRank(b) ==
    /\ \A sq \in FarthestRank(TRUE) : b[sq] # WhitePawn
    /\ \A sq \in FarthestRank(FALSE) : b[sq] # BlackPawn

\* make_move rejects every move of the set with IllegalMove carrying it and leaves
\* the state s
AllRejected(s, legal, moves) ==
    \A mov \in moves :
        make_move_in(s, legal, mov) = [res |-> "IllegalMove", mov |-> <<mov>>, s |-> s]

\* C31: make_move of a pawn onto its farthest rank with an empty promotion field
\* returns IllegalMove and leaves the state unchanged, and in every state reached
\* through successful moves no pawn stands on its own farthest rank
C31_NoUnpromotedPawn ==
    /\ NoPawnOnFarthestRank(board)
    /\ (result = Idle /\ FilterReturns(State)) =>
           AllRejected(State, get_legal_moves(State), UnpromotedArrivals(State))


\* what the claim compares of the outcome of make_move: the result and the board,
\* castling rights and side to move it leaves
Effect(r) ==
    [res |-> r.res, board |-> r.s.board, castling |-> r.s.castling,
     white_to_move |-> r.s.white_to_move]

\* make_move of mov on s has the effect of make_move of the move with the same from,
\* to and promotion and empty en-passant, castling and piece fields, and that move
\* changes the from and to squares only
DependsOnEqualityFields(s, legal, mov) ==
    LET plain == make_move_in(s, legal, Plain(mov))
    IN /\ Effect(make_move_in(s, legal, mov)) = Effect(plain)
       /\ \A sq \in Squares \ {mov.from, mov.to} : plain.s.board[sq] = s.board[sq]

\* C32: for every state and any two moves that are equal by from, to and promotion,
\* make_move gives the same result and leaves the same board, castling rights and
\* side to move, whatever their en-passant, castling and piece fields are: each has
\* the effect of the plain move of its from, to and promotion, which changes only
\* its from and to squares
C32_MoveEffectByEqualityFields ==
    result = Idle =>
        \A mov \in MoveInputs(State) :
            DependsOnEqualityFields(State, get_legal_moves(State), mov)


\* the castling move m of the side to move starts on the king's home square with
\* the king on it, and its companion starts on a rook's home square of that side
\* with a rook of the mover's colour on it
CastlesKingAndRook(s, m) ==
    /\ m.from = (IF s.white_to_move THEN 60 ELSE 4)
    /\ s.board[m.from] = (IF s.white_to_move THEN WhiteKing ELSE BlackKing)
    /\ m.castling[1] \in (IF s.white_to_move THEN {63, 56} ELSE {7, 0})
    /\ s.board[m.castling[1]] = (IF s.white_to_move THEN WhiteRook ELSE BlackRook)

\* C33: whenever a castling move is generated for the side to move, the king
\* stands on its home square and the companion's origin square holds a rook of the
\* mover's colour, also after a rook was captured on its home square
C33_CastlingHasKingAndRook ==
    \A m \in MovesOf(get_all_moves(State)) :
        m.castling # <<>> => CastlesKingAndRook(State, m)


\* the squares of board b that hold the piece code
SquaresOf(b, code) == {sq \in Squares : b[sq] = code}

\* C34: every state reached from a position with exactly one king of each colour
\* by make_move and drop calls has exactly one king of each colour: no move captures
\* a king and no move creates one
C34_OneKingEach ==
    /\ Cardinality(SquaresOf(board, WhiteKing)) = 1
    /\ Cardinality(SquaresOf(board, BlackKing)) = 1


\* square sq of state s is empty or holds a piece of the side that is not to move
EmptyOrOpposing(s, sq) ==
    s.board[sq] = 0 \/ (IsPiece(s.board[sq]) /\ is_white(s.board[sq]) # s.white_to_move)

\* C35: in every state reached by make_move and pass_turn, for every move of
\* get_all_moves the destination square and, if there is one, the en-passant
\* captured square are empty or hold a piece of the opposing colour, also right
\* after pass_turn, when the last move on record was played by the side to move
C35_NoOwnPieceRemoved ==
    \A m \in MovesOf(get_all_moves(State)) :
        /\ EmptyOrOpposing(State, m.to)
        /\ m.en_passant # <<>> => EmptyOrOpposing(State, m.en_passant[1])


\* C36: in every state reached by any interleaving of grab, drop, make_move and
\* pass_turn, whenever a square is selected it holds a piece of the side to move
C36_SelectionOfSideToMove ==
    grabbed_piece # <<>> =>
        /\ IsPiece(board[grabbed_piece[1]])
        /\ is_white(board[grabbed_piece[1]]) = white_to_move


\* C37: every mouse position that get_relative_positions accepts maps to a board
\* cell with col in 0..7 and row in 0..7, for every terminal column and row, so
\* that the click resolves to a square of that row and to an index in 0..63,
\* flipped or not
C37_ClickOnTheBoard ==
    (result.op = "get_relative_positions" /\ result.res = "Some") =>
        LET p == result.position[1]
        IN /\ p.a \in 0..7
           /\ p.b \in 0..7
           /\ result.square.res = "Ok"
           /\ result.square.ix \in Squares
           /\ result.square.ix \div 8 = (IF p.flip THEN 7 - p.b ELSE p.b)


\* C38: after any sequence of add_to_history, move_history_backwards and
\* move_history_forwards, 0 <= history_ix <= history.len() holds, no read of
\* history[history_ix] is off the end, add_to_history leaves history_ix at
\* history.len(), and a step forward from the last entry leaves the cursor past
\* the end with the empty prompt instead of starting over at the first entry
C38_HistoryCursor ==
    /\ [](/\ console.history_ix \in 0..Len(console.history)
          /\ result.res # "Panic"
          /\ result.op = "add_to_history" => console.history_ix = Len(console.history))
    /\ [][(/\ result'.op = "move_history_forwards"
           /\ console.history # <<>>
           /\ console.history_ix = Len(console.history) - 1)
              => /\ console'.history_ix = Len(console.history)
                 /\ console'.console = ""
                 /\ console'.history = console.history]_vars

\* the down key was pressed on the last of two or more entries: the cursor is past
\* the end and the prompt is empty
C38_Witness ==
    /\ result.op = "move_history_forwards"
    /\ Len(console.history) >= 2
    /\ console.history_ix = Len(console.history)
    /\ console.console = ""

=============================================================================
